---------------------------- MODULE Spec2Model ----------------------------
(***************************************************************************)
(* Context-and-memory subsystem of Puzld.ai: token budgeting, summarizer,  *)
(* session store, memory store and retriever.                              *)
(*                                                                         *)
(* A string is a sequence of one-character strings, so that length,        *)
(* slice, indexOf, lastIndexOf and replace are computed as JavaScript      *)
(* computes them.  Each component has its own specification over its own   *)
(* variables; the variables of the other components stay at their idle     *)
(* values.                                                                 *)
(***************************************************************************)
EXTENDS Integers, Sequences, FiniteSets, TLC

VARIABLES
    \* TokenBudget (src/src/context/tokens.ts)
    tText,      \* the text argument
    tAgent,     \* the agent (target) argument
    tUsed,      \* the usedTokens argument
    tOut,       \* the value returned by the call
    tPc,        \* "start" before the call, "truncated" after truncateForAgent
    \* Summarizer (src/unnamed/part_002, imported as ./summarizer)
    sText,      \* the text argument
    sOpts,      \* the options argument (a record holding the options given)
    sSvc,       \* the summarization service's answer during the call
    sOut,       \* the outcome of the call: the value returned or the exception
    sPc,        \* "start" before the call, the function's name after it
    \* SessionStore (src/src/memory/sessions.ts)
    files,      \* the sessions directory: session id -> file content
    sess,       \* the session object the caller holds, or Null
    sessConfig, \* the SessionConfig the caller passes to addMessage
    clock,      \* Date.now()
    last,       \* the last operation: its name, arguments and outcome
    \* MemoryStore (src/src/memory/sessions.ts, the module ./vector-store)
    vs,         \* the store: memory (the table's rows), nextId, initialized,
                \* lanceDb, lanceTable
    em,         \* the embeddings module: currentProvider, ollamaAvailable,
                \* detectedModel
    mClock,     \* Date.now() in seconds
    ret,        \* the last read operation: its name, arguments and outcome
    \* Asynchronous calls that overlap
    inflight,   \* the calls that have started and not returned: id -> call
    hist,       \* what the calls returned so far
    \* PipelineMemory (src/src/context/tokens.ts): the objects of a pipeline
    heap,       \* the objects allocated so far: address -> object
    held,       \* the address of the context the caller holds
    pOut        \* the last call: its name, arguments and outcome

tokVars == <<tText, tAgent, tUsed, tOut, tPc>>

sumVars == <<sText, sOpts, sSvc, sOut, sPc>>

sessVars == <<files, sess, sessConfig, clock, last>>

memVars == <<vs, em, mClock, ret>>

asyncVars == <<inflight, hist>>

pipeVars == <<heap, held, pOut>>

vars == <<tokVars, sumVars, sessVars, memVars, asyncVars, pipeVars>>

\* The value of a component's variables while another component is checked.
TokIdle ==
    /\ tText = <<>>
    /\ tAgent = "none"
    /\ tUsed = 0
    /\ tOut = <<>>
    /\ tPc = "idle"

SumIdle ==
    /\ sText = <<>>
    /\ sOpts = <<>>
    /\ sSvc = <<>>
    /\ sOut = <<>>
    /\ sPc = "idle"

SessIdle ==
    /\ files = <<>>
    /\ sess = <<>>
    /\ sessConfig = <<>>
    /\ clock = 0
    /\ last = <<>>

\* The variables of the other components, and their idle values.
MemIdle ==
    /\ vs = <<>>
    /\ em = <<>>
    /\ mClock = 0
    /\ ret = <<>>

AsyncIdle ==
    /\ inflight = <<>>
    /\ hist = <<>>

PipeIdle ==
    /\ heap = <<>>
    /\ held = 0
    /\ pOut = <<>>

notTok == <<sumVars, sessVars, memVars, asyncVars, pipeVars>>

notSum == <<tokVars, sessVars, memVars, asyncVars, pipeVars>>

notSess == <<tokVars, sumVars, memVars, asyncVars, pipeVars>>

notMem == <<tokVars, sumVars, sessVars, asyncVars, pipeVars>>

IdleButTok == SumIdle /\ SessIdle /\ MemIdle /\ AsyncIdle /\ PipeIdle

IdleButSum == TokIdle /\ SessIdle /\ MemIdle /\ AsyncIdle /\ PipeIdle

IdleButSess == TokIdle /\ SumIdle /\ MemIdle /\ AsyncIdle /\ PipeIdle

IdleButMem == TokIdle /\ SumIdle /\ SessIdle /\ AsyncIdle /\ PipeIdle

-----------------------------------------------------------------------------
(* JavaScript string primitives on sequences of characters                 *)

Max(a, b) == IF a >= b THEN a ELSE b

Min(a, b) == IF a <= b THEN a ELSE b

\* String.prototype.slice's index normalisation: a negative index counts from
\* the end, and the result is clamped to 0..len.
SliceIndex(len, i) == IF i < 0 THEN Max(len + i, 0) ELSE Min(i, len)

\* s.slice(from, to)
Slice(s, from, to) ==
    LET a == SliceIndex(Len(s), from)
        b == SliceIndex(Len(s), to)
    IN  IF a >= b THEN <<>> ELSE SubSeq(s, a + 1, b)

\* s.slice(from)
SliceFrom(s, from) == Slice(s, from, Len(s))

\* Whether pat occurs in s at the 0-based index i.
MatchAt(s, pat, i) ==
    /\ i >= 0
    /\ i + Len(pat) <= Len(s)
    /\ SubSeq(s, i + 1, i + Len(pat)) = pat

\* s.lastIndexOf(pat, from): the largest index <= from where pat occurs, or -1.
LastIndexOfFrom(s, pat, from) ==
    LET hits == {i \in 0..Min(from, Len(s)) : MatchAt(s, pat, i)}
    IN  IF hits = {} THEN -1 ELSE CHOOSE i \in hits : \A j \in hits : j <= i

\* s.lastIndexOf(pat)
LastIndexOf(s, pat) == LastIndexOfFrom(s, pat, Len(s))

\* s.indexOf(pat, from): the smallest index >= from where pat occurs, or -1.
IndexOfFrom(s, pat, from) ==
    LET hits == {i \in Max(from, 0)..Len(s) : MatchAt(s, pat, i)}
    IN  IF hits = {} THEN -1 ELSE CHOOSE i \in hits : \A j \in hits : i <= j

\* s.indexOf(pat)
IndexOf(s, pat) == IndexOfFrom(s, pat, 0)

\* n copies of the character c.
Repeat(c, n) == [i \in 1..n |-> c]

\* Every string over alphabet of length at most n.
StringsUpTo(alphabet, n) == UNION {[1..k -> alphabet] : k \in 0..n}

-----------------------------------------------------------------------------
(* TokenBudget: src/src/context/tokens.ts                                  *)

CHARS_PER_TOKEN == 4

\* ADAPTER_LIMITS
ADAPTER_LIMITS ==
    [claude |-> [maxTokens |-> 100000, reserveTokens |-> 4000, chunkSize |-> 8000],
     gemini |-> [maxTokens |-> 128000, reserveTokens |-> 4000, chunkSize |-> 8000],
     codex  |-> [maxTokens |-> 32000,  reserveTokens |-> 2000, chunkSize |-> 4000],
     ollama |-> [maxTokens |-> 8000,   reserveTokens |-> 1000, chunkSize |-> 2000]]

\* The mutant of estimateTokens that rounds down.
estimateTokensFloor(text) == Len(text) \div CHARS_PER_TOKEN

\* Math.ceil(text.length / CHARS_PER_TOKEN), 0 for the empty string
estimateTokens(text) ==
    IF Len(text) = 0 THEN 0
    ELSE (Len(text) + CHARS_PER_TOKEN - 1) \div CHARS_PER_TOKEN

\* ADAPTER_LIMITS[agent] || ADAPTER_LIMITS.ollama
\* Names that ADAPTER_LIMITS, an object literal, inherits: the value found
\* under them is a function, which is truthy and has no chunkSize.
INHERITED_AGENTS == {"constructor", "toString"}

\* ADAPTER_LIMITS[agent] || ADAPTER_LIMITS.ollama
getTokenConfig(agent) ==
    IF agent \in DOMAIN ADAPTER_LIMITS THEN ADAPTER_LIMITS[agent]
    ELSE IF agent \in INHERITED_AGENTS THEN [function |-> agent]
    ELSE ADAPTER_LIMITS.ollama

getAvailableTokens(agent, usedTokens) ==
    LET config == getTokenConfig(agent)
    IN  config.maxTokens - config.reserveTokens - usedTokens

fitsInContext(text, agent, usedTokens) ==
    estimateTokens(text) <= getAvailableTokens(agent, usedTokens)

PARAGRAPH_BREAK == <<"\n", "\n">>

SENTENCE_BREAK == <<".", " ">>

\* '\n\n[...truncated]'
TRUNCATED_SUFFIX ==
    <<"\n", "\n", "[", ".", ".", ".", "t", "r", "u", "n", "c", "a", "t", "e", "d", "]">>

\* '[...truncated]', the visible marker
TRUNCATED_MARKER == SliceFrom(TRUNCATED_SUFFIX, 2)

\* The mutant of truncateForAgent that forgets the hard cut at maxChars.
truncateForAgentNoCut(text, agent, usedTokens) ==
    LET maxChars == getAvailableTokens(agent, usedTokens) * CHARS_PER_TOKEN
    IN  IF Len(text) <= maxChars THEN text ELSE text \o TRUNCATED_SUFFIX

\* The comparisons with maxChars * 0.7 and maxChars * 0.8 are made in tenths.
truncateForAgent(text, agent, usedTokens) ==
    LET available == getAvailableTokens(agent, usedTokens)
        maxChars == available * CHARS_PER_TOKEN
        truncated == Slice(text, 0, maxChars)
        lastParagraph == LastIndexOf(truncated, PARAGRAPH_BREAK)
        lastSentence == LastIndexOf(truncated, SENTENCE_BREAK)
        cut == IF lastParagraph * 10 > maxChars * 7
                 THEN Slice(truncated, 0, lastParagraph)
               ELSE IF lastSentence * 10 > maxChars * 8
                 THEN Slice(truncated, 0, lastSentence + 1)
               ELSE truncated
    IN  IF Len(text) <= maxChars THEN text ELSE cut \o TRUNCATED_SUFFIX

-----------------------------------------------------------------------------
(* The TokenBudget specification: the arguments are drawn in the initial   *)
(* state and one call is made.                                             *)

\* The longest run of filler characters that starts a text.
MaxPad == 10

\* The longest tail of arbitrary characters that ends a text.
MaxTail == 3

\* The largest available budget, in tokens.
MaxAvail == 3

\* The largest overdraft (available = -MaxDeficit), in tokens.
MaxDeficit == 2

TokAlphabet == {"a", "\n", ".", " "}

TokTexts ==
    {Repeat("a", p) \o tail : p \in 0..MaxPad, tail \in StringsUpTo(TokAlphabet, MaxTail)}

\* "mystery" is not in ADAPTER_LIMITS and falls back to the ollama limits.
TokAgents == {"codex", "mystery"}

TokUsed(agent) ==
    {getTokenConfig(agent).maxTokens - getTokenConfig(agent).reserveTokens - a :
        a \in (0 - MaxDeficit)..MaxAvail}

TokInit ==
    /\ tText \in TokTexts
    /\ tAgent \in TokAgents
    /\ tUsed \in TokUsed(tAgent)
    /\ tOut = <<>>
    /\ tPc = "start"
    /\ IdleButTok

Truncate ==
    /\ tPc = "start"
    /\ tOut' = truncateForAgent(tText, tAgent, tUsed)
    /\ tPc' = "truncated"
    /\ UNCHANGED <<tText, tAgent, tUsed, notTok>>

TokNext == Truncate

SpecTokens == TokInit /\ [][TokNext]_vars

-----------------------------------------------------------------------------
(* Summarizer: src/unnamed/part_002 (the module ./summarizer)              *)
(*                                                                         *)
(* A call returns an outcome [threw, value, calls]: threw says whether an  *)
(* exception left the function, value is what it returned, and calls lists *)
(* the requests it sent to the summarization service.  The service's       *)
(* answer to a request is the environment's: svc is                        *)
(* [status |-> "ok", response |-> text], or a status of "unreachable",     *)
(* "error" or "timeout" (generate rejects), or "malformed" (generate       *)
(* resolves with a body that has no response text).                        *)

DEFAULT_MAX_LENGTH == 500

\* Whether the object o has the property f.
Has(o, f) == f \in DOMAIN o

Returned(v, calls) == [threw |-> FALSE, value |-> v, calls |-> calls]

Threw(calls) == [threw |-> TRUE, calls |-> calls]

WhiteSpace == {" ", "\n", "\t", "\r"}

RECURSIVE TrimStart(_)
\* s.trimStart()
TrimStart(s) ==
    IF s # <<>> /\ Head(s) \in WhiteSpace THEN TrimStart(Tail(s)) ELSE s

RECURSIVE TrimEnd(_)
\* s.trimEnd()
TrimEnd(s) ==
    IF s # <<>> /\ s[Len(s)] \in WhiteSpace THEN TrimEnd(SubSeq(s, 1, Len(s) - 1)) ELSE s

\* s.trim()
Trim(s) == TrimEnd(TrimStart(s))

Digit(d) == CASE d = 0 -> "0" [] d = 1 -> "1" [] d = 2 -> "2" [] d = 3 -> "3"
              [] d = 4 -> "4" [] d = 5 -> "5" [] d = 6 -> "6" [] d = 7 -> "7"
              [] d = 8 -> "8" [] d = 9 -> "9"

RECURSIVE DecimalString(_)
\* String(n) for n >= 0
DecimalString(n) ==
    IF n < 10 THEN <<Digit(n)>> ELSE Append(DecimalString(n \div 10), Digit(n % 10))

\* The backtick character (U+0060), which a TLA+ string cannot hold.
BACKTICK == "backtick"

\* The fence of a code block: three backticks.
FENCE == <<BACKTICK, BACKTICK, BACKTICK>>

\* '[CODE_BLOCK_' + i + ']'
CodePlaceholder(i) ==
    <<"[", "C", "O", "D", "E", "_", "B", "L", "O", "C", "K", "_">>
        \o DecimalString(i) \o <<"]">>

RECURSIVE ExtractFrom(_, _, _, _)
\* text.replace(codeBlockRegex, callback) from index i on: the leftmost
\* fence that has a closing fence after it opens a match, which ends with the
\* nearest closing fence; the callback's return value replaces the match as it
\* is, and the scan goes on after the match.  A fence with no closing fence
\* after it has none after any later fence either, so the scan ends there.
ExtractFrom(text, i, code, out) ==
    LET open == IndexOfFrom(text, FENCE, i)
        close == IndexOfFrom(text, FENCE, open + 3)
    IN  IF open = -1 \/ close = -1
        THEN [code |-> code, textWithoutCode |-> out \o SubSeq(text, i + 1, Len(text))]
        ELSE ExtractFrom(text, close + 3,
                         Append(code, SubSeq(text, open + 1, close + 3)),
                         out \o SubSeq(text, i + 1, open) \o CodePlaceholder(Len(code)))

extractCodeBlocks(text) == ExtractFrom(text, 0, <<>>, <<>>)

RECURSIVE GetSubstitution(_, _, _, _)
\* The expansion of a replacement string, for a string pattern (no capture
\* groups) matched in s at position pos with length n: $$ is $, $& the match,
\* $ with a backtick the text before the match, $ with a quote the text after
\* it; any other $ is itself.
GetSubstitution(repl, s, pos, n) ==
    IF repl = <<>> THEN <<>>
    ELSE IF Head(repl) = "$" /\ Len(repl) >= 2 /\ repl[2] \in {"$", "&", BACKTICK, "'"}
      THEN (CASE repl[2] = "$" -> <<"$">>
              [] repl[2] = "&" -> SubSeq(s, pos + 1, pos + n)
              [] repl[2] = BACKTICK -> SubSeq(s, 1, pos)
              [] repl[2] = "'" -> SubSeq(s, pos + n + 1, Len(s)))
           \o GetSubstitution(SubSeq(repl, 3, Len(repl)), s, pos, n)
    ELSE <<Head(repl)>> \o GetSubstitution(Tail(repl), s, pos, n)

\* s.replace(pat, repl) for strings pat and repl: the first occurrence only.
ReplaceFirst(s, pat, repl) ==
    LET pos == IndexOf(s, pat)
    IN  IF pos = -1 THEN s
        ELSE SubSeq(s, 1, pos) \o GetSubstitution(repl, s, pos, Len(pat))
                \o SubSeq(s, pos + Len(pat) + 1, Len(s))

RECURSIVE RestoreFrom(_, _, _)
RestoreFrom(result, code, i) ==
    IF i >= Len(code) THEN result
    ELSE RestoreFrom(ReplaceFirst(result, CodePlaceholder(i), code[i + 1]), code, i + 1)

\* code.forEach((block, i) => result = result.replace(placeholder(i), block))
restoreCodeBlocks(summary, code) == RestoreFrom(summary, code, 0)

\* '\n\n[...summarization failed, truncated]'
FAILED_SUFFIX ==
    <<"\n", "\n", "[", ".", ".", ".", "s", "u", "m", "m", "a", "r", "i", "z", "a", "t",
      "i", "o", "n", " ", "f", "a", "i", "l", "e", "d", ",", " ", "t", "r", "u", "n",
      "c", "a", "t", "e", "d", "]">>

\* '[...summarization failed, truncated]', the tag
FAILED_TAG == SliceFrom(FAILED_SUFFIX, 2)

\* await ollama.generate({model, prompt, stream: false}), then response.response
\* read: the text, or an exception (a rejected call, or a TypeError on a body
\* without the text).
Generate(svc) ==
    IF svc.status = "ok" THEN [threw |-> FALSE, text |-> svc.response]
    ELSE [threw |-> TRUE]

\* options.maxLength || DEFAULT_MAX_LENGTH
EffectiveMaxLength(options) ==
    IF Has(options, "maxLength") /\ options.maxLength # 0 THEN options.maxLength
    ELSE DEFAULT_MAX_LENGTH

\* options.preserveCode ?? true
EffectivePreserveCode(options) ==
    IF Has(options, "preserveCode") THEN options.preserveCode ELSE TRUE

\* A quotient a / b kept as the pair of its terms; the literal 1 is 1 / 1.
Ratio(a, b) == [num |-> a, den |-> b]

\* The mutant of SummarizeFallback that truncates the text sent to the service
\* (code blocks replaced by placeholders) instead of the original text.
SummarizeFallbackOfSent(text, maxLength, originalTokens) ==
    LET truncated ==
            Slice(extractCodeBlocks(text).textWithoutCode, 0, maxLength * 4) \o FAILED_SUFFIX
    IN  [summary |-> truncated,
         originalTokens |-> originalTokens,
         summaryTokens |-> estimateTokens(truncated),
         compressionRatio |-> Ratio(1, 1)]

\* The catch block of summarize: the truncation of the original text.
SummarizeFallback(text, maxLength, originalTokens) ==
    LET truncated == Slice(text, 0, maxLength * 4) \o FAILED_SUFFIX
    IN  [summary |-> truncated,
         originalTokens |-> originalTokens,
         summaryTokens |-> estimateTokens(truncated),
         compressionRatio |-> Ratio(1, 1)]

\* The mutant of summarize without its catch block: a failure of the service
\* leaves the function as an exception.
summarizeUncaught(text, options, svc) ==
    IF estimateTokens(text) > EffectiveMaxLength(options) /\ Generate(svc).threw
    THEN Threw(<<>>)
    ELSE Returned([summary |-> text,
                   originalTokens |-> estimateTokens(text),
                   summaryTokens |-> estimateTokens(text),
                   compressionRatio |-> Ratio(1, 1)], <<>>)

\* The mutant of summarize without the early return for a short text: every
\* text is sent to the summarization service.
summarizeAlwaysSent(text, options, svc) ==
    LET maxLength == EffectiveMaxLength(options)
        preserveCode == EffectivePreserveCode(options)
        originalTokens == estimateTokens(text)
        extracted == extractCodeBlocks(text)
        textToSummarize == IF preserveCode THEN extracted.textWithoutCode ELSE text
        codeBlocks == IF preserveCode THEN extracted.code ELSE <<>>
        request == [maxLength |-> maxLength, content |-> textToSummarize]
        response == Generate(svc)
        trimmed == Trim(response.text)
        summary == IF preserveCode /\ Len(codeBlocks) > 0
                   THEN restoreCodeBlocks(trimmed, codeBlocks)
                   ELSE trimmed
    IN  IF ~response.threw
        THEN Returned([summary |-> summary,
                       originalTokens |-> originalTokens,
                       summaryTokens |-> estimateTokens(summary),
                       compressionRatio |-> Ratio(originalTokens, estimateTokens(summary))],
                      <<request>>)
        ELSE Returned(SummarizeFallback(text, maxLength, originalTokens), <<request>>)

\* summarize(text, options).  The prompt is SUMMARIZE_PROMPT with maxLength and
\* textToSummarize filled in; the request is recorded by its content.
summarize(text, options, svc) ==
    LET maxLength == EffectiveMaxLength(options)
        preserveCode == EffectivePreserveCode(options)
        originalTokens == estimateTokens(text)
        extracted == extractCodeBlocks(text)
        textToSummarize == IF preserveCode THEN extracted.textWithoutCode ELSE text
        codeBlocks == IF preserveCode THEN extracted.code ELSE <<>>
        request == [maxLength |-> maxLength, content |-> textToSummarize]
        response == Generate(svc)
        trimmed == Trim(response.text)
        summary == IF preserveCode /\ Len(codeBlocks) > 0
                   THEN restoreCodeBlocks(trimmed, codeBlocks)
                   ELSE trimmed
        summaryTokens == estimateTokens(summary)
    IN  IF originalTokens <= maxLength
        THEN Returned([summary |-> text,
                       originalTokens |-> originalTokens,
                       summaryTokens |-> originalTokens,
                       compressionRatio |-> Ratio(1, 1)], <<>>)
        ELSE IF ~response.threw
        THEN Returned([summary |-> summary,
                       originalTokens |-> originalTokens,
                       summaryTokens |-> summaryTokens,
                       compressionRatio |-> Ratio(originalTokens, summaryTokens)],
                      <<request>>)
        ELSE Returned(SummarizeFallback(text, maxLength, originalTokens), <<request>>)

\* const result = await summarize(text, ...); return result.summary
SummaryOf(result) ==
    IF result.threw THEN Threw(result.calls)
    ELSE Returned(result.value.summary, result.calls)

\* summarizeIfNeeded(text, tokenLimit, options): Math.floor(tokenLimit * 0.8)
\* is computed in tenths.
summarizeIfNeeded(text, tokenLimit, options, svc) ==
    IF estimateTokens(text) <= tokenLimit THEN Returned(text, <<>>)
    ELSE SummaryOf(summarize(text, [maxLength |-> (tokenLimit * 8) \div 10] @@ options, svc))

RECURSIVE SplitLines(_)
\* s.split('\n')
SplitLines(s) ==
    LET i == IndexOf(s, <<"\n">>)
    IN  IF i = -1 THEN <<s>>
        ELSE <<SubSeq(s, 1, i)>> \o SplitLines(SubSeq(s, i + 2, Len(s)))

\* The bullet characters of /^[-*•]\s*/; "bullet" stands for U+2022.
BulletChars == {"-", "*", "bullet"}

\* line.replace(/^[-*•]\s*/, '').trim()
StripBullet(line) ==
    Trim(IF line # <<>> /\ Head(line) \in BulletChars THEN TrimStart(Tail(line)) ELSE line)

\* lines.map(strip).filter(line => line.length > 0)
KeyPointLines(lines) ==
    SelectSeq([i \in 1..Len(lines) |-> StripBullet(lines[i])], LAMBDA l : Len(l) > 0)

\* The tokens below which extractKeyPoints does not ask the service.
KEY_POINTS_MIN_TOKENS == 100

\* The characters of the text that the fallback of extractKeyPoints keeps.
KEY_POINTS_FALLBACK_CHARS == 200

ELLIPSIS == <<".", ".", ".">>

\* extractKeyPoints(text)
extractKeyPoints(text, svc) ==
    LET response == Generate(svc)
        request == [content |-> text]
    IN  IF estimateTokens(text) < KEY_POINTS_MIN_TOKENS THEN Returned(<<Trim(text)>>, <<>>)
        ELSE IF ~response.threw
        THEN Returned(KeyPointLines(SplitLines(Trim(response.text))), <<request>>)
        ELSE Returned(<<Slice(text, 0, KEY_POINTS_FALLBACK_CHARS) \o ELLIPSIS>>, <<request>>)

\* isSummarizerAvailable(): probe is what fetch(host + '/api/tags') does within
\* the 2 s timeout: "ok" or "http_error" (a response, ok or not), "unreachable"
\* or "timeout" (fetch rejects).  enabled is config.adapters.ollama.enabled.
isSummarizerAvailable(enabled, probe) ==
    IF ~enabled THEN Returned(FALSE, <<>>)
    ELSE IF probe \in {"ok", "http_error"} THEN Returned(probe = "ok", <<"tags">>)
    ELSE Returned(FALSE, <<"tags">>)

-----------------------------------------------------------------------------
(* The Summarizer specification: the arguments are drawn in the initial    *)
(* state, and one call is made with an answer of the service.              *)

\* The largest number of pieces a text is made of.
MaxPieces == 4

\* The largest maxLength option given.
MaxMaxLength == 2

SumPieces == {<<"a">>, <<"$">>, <<" ">>, FENCE}

RECURSIVE Concat(_)
\* The concatenation of a sequence of strings.
Concat(ss) == IF ss = <<>> THEN <<>> ELSE Head(ss) \o Concat(Tail(ss))

SumTexts == {Concat(ps) : ps \in StringsUpTo(SumPieces, MaxPieces)}

\* The options objects: maxLength absent, 0 (which || replaces by the default),
\* negative or positive; preserveCode absent or given.
SumOptions ==
    LET lengths == {<<>>} \cup {[maxLength |-> n] : n \in -1..MaxMaxLength}
        preserve == {<<>>} \cup {[preserveCode |-> b] : b \in BOOLEAN}
    IN  {l @@ q : l \in lengths, q \in preserve}

\* What the model may answer: nothing, prose with blanks around it, the
\* placeholders kept, doubled, reordered or dropped.
SumResponses ==
    {<<>>, <<"s">>, <<" ", "s", "\n">>,
     CodePlaceholder(0), <<"s">> \o CodePlaceholder(0),
     CodePlaceholder(0) \o CodePlaceholder(0),
     CodePlaceholder(1) \o CodePlaceholder(0),
     CodePlaceholder(0) \o <<"s">> \o CodePlaceholder(1)}

SvcFailures == {[status |-> st] : st \in {"unreachable", "error", "timeout", "malformed"}}

SvcOutcomes == {[status |-> "ok", response |-> r] : r \in SumResponses} \cup SvcFailures

SumInit ==
    /\ sText \in SumTexts
    /\ sOpts \in SumOptions
    /\ sSvc = <<>>
    /\ sOut = <<>>
    /\ sPc = "start"
    /\ IdleButSum

Summarize ==
    /\ sPc = "start"
    /\ \E svc \in SvcOutcomes :
        /\ sSvc' = svc
        /\ sOut' = summarize(sText, sOpts, svc)
    /\ sPc' = "summarize"
    /\ UNCHANGED <<sText, sOpts, notSum>>

SumNext == Summarize

SpecSummarizer == SumInit /\ [][SumNext]_vars

\* Whether pat occurs in s.
Contains(s, pat) == IndexOf(s, pat) # -1

\* The first n characters of s, for n >= 0.
FirstChars(s, n) == SubSeq(s, 1, Min(n, Len(s)))

\* A summarize call that went to the service and found it failing.
SummarizeFailed ==
    /\ sPc = "summarize"
    /\ sSvc.status # "ok"
    /\ estimateTokens(sText) > EffectiveMaxLength(sOpts)
    /\ EffectiveMaxLength(sOpts) >= 0

C7_CodeBlockSurvives ==
    (/\ sPc = "summarize"
     /\ EffectivePreserveCode(sOpts)
     /\ EffectiveMaxLength(sOpts) >= 1
     /\ estimateTokens(sText) > EffectiveMaxLength(sOpts)
     /\ sSvc.status = "ok")
        => \A i \in 1..Len(extractCodeBlocks(sText).code) :
              Contains(sOut.value.summary, extractCodeBlocks(sText).code[i])

-----------------------------------------------------------------------------
(* SessionStore: src/src/memory/sessions.ts, lines 1-427                   *)
(*                                                                         *)
(* The sessions directory is a function from session ids to file contents. *)
(* A file holds [kind |-> "json", doc |-> d], the text JSON.stringify made *)
(* of the document d, or [kind |-> "garbage"], text that JSON.parse        *)
(* rejects.  Date.now() is the logical clock now.                          *)

DEFAULT_MAX_TOKENS == 8000

DEFAULT_KEEP_RECENT == 10

\* DEFAULT_CONFIG of the session manager
DEFAULT_SESSION_CONFIG ==
    [maxTokens |-> DEFAULT_MAX_TOKENS,
     keepRecentMessages |-> DEFAULT_KEEP_RECENT,
     autoSave |-> TRUE]

\* { ...DEFAULT_CONFIG, ...config }
SessionConfigOf(config) == config @@ DEFAULT_SESSION_CONFIG

\* The characters of a role name.
RoleChars(role) ==
    CASE role = "user" -> <<"u", "s", "e", "r">>
      [] role = "assistant" -> <<"a", "s", "s", "i", "s", "t", "a", "n", "t">>
      [] role = "system" -> <<"s", "y", "s", "t", "e", "m">>

\* The characters JSON.stringify writes for one character of a string: a
\* quote, a backslash and a control character are escaped.
EscapeChar(c) ==
    CASE c = "\"" -> <<"\\", "\"">>
      [] c = "\\" -> <<"\\", "\\">>
      [] c = "\n" -> <<"\\", "n">>
      [] c = "\t" -> <<"\\", "t">>
      [] c = "\r" -> <<"\\", "r">>
      [] OTHER -> <<c>>

\* The character JSON.parse reads from one unit of a string literal.
UnescapeUnit(u) ==
    IF Len(u) = 1 THEN u[1]
    ELSE CASE u[2] = "n" -> "\n"
           [] u[2] = "t" -> "\t"
           [] u[2] = "r" -> "\r"
           [] OTHER -> u[2]

\* A string literal of the JSON text, as the sequence of its units.
JsonString(s) == [i \in 1..Len(s) |-> EscapeChar(s[i])]

ParseString(units) == [i \in 1..Len(units) |-> UnescapeUnit(units[i])]

\* A number of the JSON text: its decimal digits, after a sign.
JsonNumber(n) == IF n < 0 THEN <<"-">> \o DecimalString(-n) ELSE DecimalString(n)

DigitValue(d) == CHOOSE v \in 0..9 : Digit(v) = d

RECURSIVE ParseDigits(_)
ParseDigits(digits) ==
    IF Len(digits) = 1 THEN DigitValue(digits[1])
    ELSE ParseDigits(SubSeq(digits, 1, Len(digits) - 1)) * 10 + DigitValue(digits[Len(digits)])

ParseNumber(text) ==
    IF Head(text) = "-" THEN 0 - ParseDigits(Tail(text)) ELSE ParseDigits(text)

\* JSON.stringify(message)
JsonMessage(m) ==
    [role |-> m.role,
     content |-> JsonString(m.content),
     tokens |-> JsonNumber(m.tokens),
     timestamp |-> JsonNumber(m.timestamp)]

ParseMessage(j) ==
    [role |-> j.role,
     content |-> ParseString(j.content),
     tokens |-> ParseNumber(j.tokens),
     timestamp |-> ParseNumber(j.timestamp)]

\* JSON.stringify(session, null, 2): the text, as the literals of its
\* properties.  The id, the agent and a role are names without a character to
\* escape, written as they are.
JsonStringify(session) ==
    [kind |-> "json",
     doc |-> [id |-> session.id,
              agent |-> session.agent,
              messages |-> [i \in 1..Len(session.messages) |->
                               JsonMessage(session.messages[i])],
              summary |-> JsonString(session.summary),
              summaryTokens |-> JsonNumber(session.summaryTokens),
              totalTokens |-> JsonNumber(session.totalTokens),
              messageCount |-> JsonNumber(session.messageCount),
              createdAt |-> JsonNumber(session.createdAt),
              updatedAt |-> JsonNumber(session.updatedAt)]]

\* The object JSON.parse makes of the text of a session.
ParseSession(doc) ==
    [id |-> doc.id,
     agent |-> doc.agent,
     messages |-> [i \in 1..Len(doc.messages) |-> ParseMessage(doc.messages[i])],
     summary |-> ParseString(doc.summary),
     summaryTokens |-> ParseNumber(doc.summaryTokens),
     totalTokens |-> ParseNumber(doc.totalTokens),
     messageCount |-> ParseNumber(doc.messageCount),
     createdAt |-> ParseNumber(doc.createdAt),
     updatedAt |-> ParseNumber(doc.updatedAt)]

\* The text {"v":1}: JSON that is not the text of a session.
OTHER_DOCUMENT == [v |-> <<"1">>]

\* JSON.parse(raw): the document, or a SyntaxError.
JsonParse(raw) ==
    IF raw.kind # "json" THEN [threw |-> TRUE]
    ELSE IF raw.doc = OTHER_DOCUMENT
    THEN [threw |-> FALSE, value |-> [v |-> ParseNumber(raw.doc.v)]]
    ELSE [threw |-> FALSE, value |-> ParseSession(raw.doc)]

\* generateSessionId(agent): agent, Date.now() and four random characters
generateSessionId(agent, now, random) == <<agent, now, random>>

\* existsSync(getSessionPath(sessionId))
SessionFileExists(fs, sessionId) == sessionId \in DOMAIN fs

\* The mutant of saveSession that leaves a file alone when it holds a session
\* updated later than the one given.
saveSessionUnlessNewer(fs, session) ==
    [id \in DOMAIN fs \cup {session.id} |->
        IF id # session.id THEN fs[id]
        ELSE IF /\ id \in DOMAIN fs
                /\ ~JsonParse(fs[id]).threw
                /\ JsonParse(fs[id]).value.updatedAt > session.updatedAt
        THEN fs[id]
        ELSE JsonStringify(session)]

\* saveSession(session): the file of session.id is overwritten
saveSession(fs, session) ==
    [id \in DOMAIN fs \cup {session.id} |->
        IF id = session.id THEN JsonStringify(session) ELSE fs[id]]

\* The null that loadSession returns for a missing or unreadable file.
Null == [null |-> TRUE]

\* loadSession(sessionId)
loadSession(fs, sessionId) ==
    IF ~SessionFileExists(fs, sessionId) THEN Null
    ELSE IF JsonParse(fs[sessionId]).threw THEN Null
    ELSE JsonParse(fs[sessionId]).value

\* deleteSession(sessionId): the directory afterwards, and the value returned
deleteSession(fs, sessionId) ==
    IF ~SessionFileExists(fs, sessionId) THEN [fs |-> fs, value |-> FALSE]
    ELSE [fs |-> [id \in DOMAIN fs \ {sessionId} |-> fs[id]], value |-> TRUE]

\* The mutant of createSession that returns the new session without saving it.
createSessionUnsaved(fs, agent, now, random) ==
    [fs |-> fs,
     value |-> [id |-> generateSessionId(agent, now, random),
                agent |-> agent,
                messages |-> <<>>,
                summary |-> <<>>,
                summaryTokens |-> 0,
                totalTokens |-> 0,
                messageCount |-> 0,
                createdAt |-> now,
                updatedAt |-> now]]

\* createSession(agent): the new session, saved
createSession(fs, agent, now, random) ==
    LET session == [id |-> generateSessionId(agent, now, random),
                    agent |-> agent,
                    messages |-> <<>>,
                    summary |-> <<>>,
                    summaryTokens |-> 0,
                    totalTokens |-> 0,
                    messageCount |-> 0,
                    createdAt |-> now,
                    updatedAt |-> now]
    IN  [fs |-> saveSession(fs, session), value |-> session]

RECURSIVE SumTokens(_)
\* messages.reduce((sum, m) => sum + m.tokens, 0)
SumTokens(messages) ==
    IF messages = <<>> THEN 0 ELSE Head(messages).tokens + SumTokens(Tail(messages))

RECURSIVE JoinParagraphs(_)
\* parts.join('\n\n')
JoinParagraphs(parts) ==
    IF parts = <<>> THEN <<>>
    ELSE IF Len(parts) = 1 THEN parts[1]
    ELSE parts[1] \o PARAGRAPH_BREAK \o JoinParagraphs(Tail(parts))

\* role + ': ' + content
MessageLine(m) == RoleChars(m.role) \o <<":", " ">> \o m.content

PREVIOUS_SUMMARY ==
    <<"P", "r", "e", "v", "i", "o", "u", "s", " ", "s", "u", "m", "m", "a", "r", "y", ":", "\n">>

NEW_MESSAGES ==
    <<"\n", "\n", "N", "e", "w", " ", "m", "e", "s", "s", "a", "g", "e", "s", ":", "\n">>

\* The text compressSession summarizes: the old messages, after the previous
\* summary when there is one.
FoldInput(summary, oldMessages) ==
    LET oldText == JoinParagraphs([i \in 1..Len(oldMessages) |-> MessageLine(oldMessages[i])])
    IN  IF summary # <<>> THEN PREVIOUS_SUMMARY \o summary \o NEW_MESSAGES \o oldText
        ELSE oldText

\* The mutant of SplitIndex that keeps one message more than asked.
SplitIndexOneMore(count, keepRecentMessages) == Max(0, count - keepRecentMessages - 1)

\* Math.max(0, session.messages.length - keepRecentMessages)
SplitIndex(count, keepRecentMessages) == Max(0, count - keepRecentMessages)

\* Math.floor((maxTokens - recentTokens) * 0.3), computed in tenths
TargetSummaryTokens(maxTokens, recentTokens) == ((maxTokens - recentTokens) * 3) \div 10

\* The summary compressSession settles on, with the requests made: the
\* summarizer's text when the service is available and summarizeIfNeeded
\* returns, and otherwise the first targetSummaryTokens * 4 characters of the
\* text.
NewSummary(textToSummarize, targetSummaryTokens, available, summarized) ==
    IF available.value /\ ~summarized.threw
    THEN [summary |-> summarized.value, calls |-> available.calls \o summarized.calls]
    ELSE [summary |-> Slice(textToSummarize, 0, targetSummaryTokens * 4),
          calls |-> available.calls \o (IF available.value THEN summarized.calls ELSE <<>>)]

\* The session compressSession returns after folding.
FoldedSession(session, recentMessages, new, now) ==
    [threw |-> FALSE,
     value |-> [session EXCEPT !.messages = recentMessages,
                               !.summary = new.summary,
                               !.summaryTokens = estimateTokens(new.summary),
                               !.totalTokens = estimateTokens(new.summary)
                                                 + SumTokens(recentMessages),
                               !.updatedAt = now],
     folded |-> TRUE,
     calls |-> new.calls]

\* The mutant of compressSession that keeps the oldest messages verbatim and
\* folds the latest ones.
compressSessionKeepOldest(session, config, now, env) ==
    LET splitIndex == SplitIndex(Len(session.messages), config.keepRecentMessages)
        oldMessages == SliceFrom(session.messages, Len(session.messages) - splitIndex)
        recentMessages == Slice(session.messages, 0, Len(session.messages) - splitIndex)
        textToSummarize == FoldInput(session.summary, oldMessages)
        recentTokens == SumTokens(recentMessages)
        targetSummaryTokens == TargetSummaryTokens(config.maxTokens, recentTokens)
    IN  IF Len(oldMessages) = 0
        THEN [threw |-> FALSE, value |-> session, folded |-> FALSE, calls |-> <<>>]
        ELSE FoldedSession(session, recentMessages,
                           NewSummary(textToSummarize, targetSummaryTokens,
                                      isSummarizerAvailable(env.enabled, env.probe),
                                      summarizeIfNeeded(textToSummarize, targetSummaryTokens,
                                                        <<>>, env.svc)),
                           now)

\* compressSession(session, config): value is the session returned, folded
\* says whether old messages were folded into the summary.  env holds the
\* answers of the service during the call: enabled and probe for
\* isSummarizerAvailable, svc for the summarization request.
compressSession(session, config, now, env) ==
    LET splitIndex == SplitIndex(Len(session.messages), config.keepRecentMessages)
        oldMessages == Slice(session.messages, 0, splitIndex)
        recentMessages == SliceFrom(session.messages, splitIndex)
        textToSummarize == FoldInput(session.summary, oldMessages)
        recentTokens == SumTokens(recentMessages)
        targetSummaryTokens == TargetSummaryTokens(config.maxTokens, recentTokens)
    IN  IF Len(oldMessages) = 0
        THEN [threw |-> FALSE, value |-> session, folded |-> FALSE, calls |-> <<>>]
        ELSE FoldedSession(session, recentMessages,
                           NewSummary(textToSummarize, targetSummaryTokens,
                                      isSummarizerAvailable(env.enabled, env.probe),
                                      summarizeIfNeeded(textToSummarize, targetSummaryTokens,
                                                        <<>>, env.svc)),
                           now)

\* The session addMessage builds before it looks at the token ceiling.
WithMessage(session, role, content, now) ==
    [session EXCEPT
        !.messages = Append(session.messages,
                            [role |-> role, content |-> content,
                             tokens |-> estimateTokens(content), timestamp |-> now]),
        !.totalTokens = session.totalTokens + estimateTokens(content),
        !.messageCount = session.messageCount + 1,
        !.updatedAt = now]

\* The outcome of compressSession for a session under the ceiling: it is not
\* called.
NotCompressed(session) ==
    [threw |-> FALSE, value |-> session, folded |-> FALSE, calls |-> <<>>]

\* What addMessage hands back: the session compressSession returned, or its
\* exception, with the sessions directory as written.
ReturnWith(fsAfter, compressed, compacted) ==
    IF compressed.threw
    THEN [threw |-> TRUE, fs |-> fsAfter, compacted |-> compacted, folded |-> FALSE,
          calls |-> compressed.calls]
    ELSE [threw |-> FALSE,
          value |-> compressed.value,
          fs |-> fsAfter,
          compacted |-> compacted,
          folded |-> compressed.folded,
          calls |-> compressed.calls]

\* The end of addMessage: if (cfg.autoSave) saveSession(updatedSession);
\* return updatedSession.
SaveAndReturn(fs, cfg, compressed, compacted) ==
    ReturnWith(IF ~compressed.threw /\ cfg.autoSave
               THEN saveSession(fs, compressed.value) ELSE fs,
               compressed, compacted)

\* The mutant of addMessage that saves before it compacts.
addMessageSaveFirst(fs, session, role, content, config, now, env) ==
    LET cfg == SessionConfigOf(config)
        appended == WithMessage(session, role, content, now)
        written == IF cfg.autoSave THEN saveSession(fs, appended) ELSE fs
    IN  IF appended.totalTokens > cfg.maxTokens
        THEN ReturnWith(written, compressSession(appended, cfg, now, env), TRUE)
        ELSE ReturnWith(written, NotCompressed(appended), FALSE)

\* The mutant of addMessage that compacts at every append, whatever the total.
addMessageAlwaysCompress(fs, session, role, content, config, now, env) ==
    SaveAndReturn(fs, SessionConfigOf(config),
                  compressSession(WithMessage(session, role, content, now),
                                  SessionConfigOf(config), now, env),
                  TRUE)

\* addMessage(session, role, content, config): value is the session returned,
\* fs the sessions directory afterwards; compacted says whether compressSession
\* was called, and folded whether it folded messages.
addMessage(fs, session, role, content, config, now, env) ==
    LET cfg == SessionConfigOf(config)
        appended == WithMessage(session, role, content, now)
    IN  IF appended.totalTokens > cfg.maxTokens
        THEN SaveAndReturn(fs, cfg, compressSession(appended, cfg, now, env), TRUE)
        ELSE SaveAndReturn(fs, cfg, NotCompressed(appended), FALSE)

\* The mutant of clearSessionHistory that leaves totalTokens as it was.
clearSessionHistoryKeepTotal(fs, session, now) ==
    [fs |-> saveSession(fs, [session EXCEPT !.messages = <<>>,
                                            !.summary = <<>>,
                                            !.summaryTokens = 0,
                                            !.messageCount = 0,
                                            !.updatedAt = now]),
     value |-> [session EXCEPT !.messages = <<>>,
                               !.summary = <<>>,
                               !.summaryTokens = 0,
                               !.messageCount = 0,
                               !.updatedAt = now]]

\* clearSessionHistory(session): the cleared session, saved
clearSessionHistory(fs, session, now) ==
    LET cleared == [session EXCEPT !.messages = <<>>,
                                   !.summary = <<>>,
                                   !.summaryTokens = 0,
                                   !.totalTokens = 0,
                                   !.messageCount = 0,
                                   !.updatedAt = now]
    IN  [fs |-> saveSession(fs, cleared), value |-> cleared]

\* Math.round(x * 100) for the quotient x = num / den with den > 0: the nearest
\* whole number, a half rounded up.
RoundPercent(num, den) == (200 * num + den) \div (2 * den)

\* getSessionStats(session)
getSessionStats(session) ==
    LET recentTokens == SumTokens(session.messages)
        timestamps == {session.messages[i].timestamp : i \in DOMAIN session.messages}
        denominator == session.totalTokens - recentTokens + session.summaryTokens
    IN  [messageCount |-> session.messageCount,
         totalTokens |-> session.totalTokens,
         summaryTokens |-> session.summaryTokens,
         recentTokens |-> recentTokens,
         compressionRatio |->
             IF session.summaryTokens > 0
             THEN [number |-> RoundPercent(denominator - session.summaryTokens, denominator)]
             ELSE [number |-> 0],
         oldestMessage |->
             IF timestamps # {}
             THEN [number |-> CHOOSE t \in timestamps : \A u \in timestamps : t <= u]
             ELSE Null,
         newestMessage |->
             IF timestamps # {}
             THEN [number |-> CHOOSE t \in timestamps : \A u \in timestamps : t >= u]
             ELSE Null]

-----------------------------------------------------------------------------
(* The SessionStore specification: a caller creates sessions, appends      *)
(* messages to the session it holds, clears it, loads and deletes stored   *)
(* sessions.                                                               *)

\* The number of operations of a run.
MaxOps == 4

\* The longest message content, in characters.
MaxContent == 16

\* The smallest maxTokens ceiling, from which the next one is made.
SmallCeiling == 3

SessAgents == {"claude"}

SessRoles == {"user", "assistant"}

SessContents == {<<"h", "i">>, Repeat("x", MaxContent)}

\* The config objects: each option absent (the default applies) or given.
SessConfigs ==
    LET tokens == {<<>>} \cup {[maxTokens |-> n] : n \in {SmallCeiling, 2 * SmallCeiling + 1}}
        keep == {<<>>} \cup {[keepRecentMessages |-> k] : k \in 0..2}
        save == {<<>>, [autoSave |-> FALSE]}
    IN  {t @@ k @@ a : t \in tokens, k \in keep, a \in save}

\* The service during one call: disabled in the configuration, unreachable,
\* answering with a summary, or failing the request.
SessEnvs ==
    {[enabled |-> FALSE, probe |-> "ok", svc |-> [status |-> "error"]],
     [enabled |-> TRUE, probe |-> "unreachable", svc |-> [status |-> "unreachable"]],
     [enabled |-> TRUE, probe |-> "ok", svc |-> [status |-> "ok", response |-> <<"s">>]],
     [enabled |-> TRUE, probe |-> "ok", svc |-> [status |-> "error"]]}

\* The ids a caller can name: those of the stored files and of the session held.
KnownIds == DOMAIN files \cup (IF sess = Null THEN {} ELSE {sess.id})

SessInit ==
    /\ files = <<>>
    /\ sess = Null
    /\ sessConfig \in SessConfigs
    /\ clock = 0
    /\ last = [op |-> "none", log |-> <<>>]
    /\ IdleButSess

\* The caller holds one session at a time: it creates one when it holds none.
CreateSession ==
    /\ clock < MaxOps
    /\ sess = Null
    /\ \E agent \in SessAgents :
        /\ files' = createSession(files, agent, clock + 1, "r").fs
        /\ sess' = createSession(files, agent, clock + 1, "r").value
    /\ last' = [op |-> "createSession", log |-> <<>>]
    /\ clock' = clock + 1
    /\ UNCHANGED <<sessConfig, notSess>>

\* The caller takes what addMessage returned; after an exception it keeps the
\* session it had.  last records the call: the session and the directory
\* before it, the message, the service during the call, and what it returned.
\* last.log lists the messages appended to the session held since it was
\* created or cleared.
AddMessageReturns(out, role, content, env) ==
    /\ files' = out.fs
    /\ sess' = IF out.threw THEN sess ELSE out.value
    /\ last' = [op |-> "addMessage", before |-> sess, filesBefore |-> files,
                role |-> role, content |-> content, env |-> env,
                log |-> IF out.threw THEN last.log
                        ELSE Append(last.log, [role |-> role, content |-> content,
                                               tokens |-> estimateTokens(content),
                                               timestamp |-> clock + 1]),
                out |-> [f \in DOMAIN out \ {"fs"} |-> out[f]]]

AddMessage ==
    /\ clock < MaxOps
    /\ sess # Null
    /\ \E role \in SessRoles, content \in SessContents, env \in SessEnvs :
        AddMessageReturns(addMessage(files, sess, role, content, sessConfig, clock + 1, env),
                          role, content, env)
    /\ clock' = clock + 1
    /\ UNCHANGED <<sessConfig, notSess>>

ClearSessionHistory ==
    /\ clock < MaxOps
    /\ sess # Null
    /\ files' = clearSessionHistory(files, sess, clock + 1).fs
    /\ sess' = clearSessionHistory(files, sess, clock + 1).value
    /\ last' = [op |-> "clearSessionHistory", log |-> <<>>]
    /\ clock' = clock + 1
    /\ UNCHANGED <<sessConfig, notSess>>

LoadSession ==
    /\ clock < MaxOps
    /\ \E id \in KnownIds :
        /\ sess' = loadSession(files, id)
        /\ last' = [op |-> "loadSession", id |-> id, log |-> last.log]
    /\ clock' = clock + 1
    /\ UNCHANGED <<files, sessConfig, notSess>>

DeleteSession ==
    /\ clock < MaxOps
    /\ \E id \in KnownIds :
        /\ files' = deleteSession(files, id).fs
        /\ last' = [op |-> "deleteSession", id |-> id, log |-> last.log,
                    value |-> deleteSession(files, id).value]
    /\ clock' = clock + 1
    /\ UNCHANGED <<sess, sessConfig, notSess>>

\* The caller asks for the statistics of the session it holds.
GetSessionStats ==
    /\ clock < MaxOps
    /\ sess # Null
    /\ last' = [op |-> "getSessionStats", log |-> last.log, value |-> getSessionStats(sess)]
    /\ clock' = clock + 1
    /\ UNCHANGED <<files, sess, sessConfig, notSess>>

SessNext ==
    \/ CreateSession
    \/ AddMessage
    \/ ClearSessionHistory
    \/ LoadSession
    \/ DeleteSession
    \/ GetSessionStats

SpecSession == SessInit /\ [][SessNext]_vars

\* The arguments of the last addMessage call, as compressSession sees them:
\* the configuration in force and the number of messages after the append.
LastConfig == SessionConfigOf(sessConfig)

LastCount == Len(last.before.messages) + 1

\* C3: a compaction folds nothing when the session's message count (the
\* messages it holds, and also its messageCount field, which is never smaller)
\* is at most keepRecentMessages: the messages and the summary are as they
\* were; and when it folds, the verbatim messages left are
\* min(keepRecentMessages, message count before the compaction), the last ones.
C3_FoldCount ==
    (last.op = "addMessage" /\ last.out.compacted) =>
        LET keep == LastConfig.keepRecentMessages
            left == last.out.value.messages
        IN  /\ ~last.out.threw
            /\ keep >= 0
            /\ last.before.messageCount + 1 >= LastCount
            /\ (LastCount <= keep \/ last.before.messageCount + 1 <= keep) =>
                  /\ ~last.out.folded
                  /\ Len(left) = LastCount
                  /\ SubSeq(left, 1, LastCount - 1) = last.before.messages
                  /\ last.out.value.summary = last.before.summary
            /\ last.out.folded =>
                  /\ Len(left) = Min(keep, LastCount)
                  /\ Len(left) = Min(keep, last.before.messageCount + 1)
                  /\ \A i \in 1..Len(left) - 1 :
                        left[i] = last.before.messages[Len(last.before.messages) - Len(left) + 1 + i]

\* C3 witness: a second compaction folds a session of more messages than
\* keepRecentMessages >= 1 into the summary it already has.
C3_Witness ==
    /\ last.op = "addMessage"
    /\ last.out.compacted
    /\ last.out.folded
    /\ LastConfig.keepRecentMessages >= 1
    /\ LastCount > LastConfig.keepRecentMessages
    /\ last.before.summary # <<>>
    /\ Len(last.out.value.messages) = LastConfig.keepRecentMessages

\* C10: after addMessage returns with autoSave enabled, loadSession of the
\* session's id yields the session returned, compaction included; with
\* autoSave disabled the stored file of that id is as it was before the call
\* (and so is every other file).
C10_SavedEqualsReturned ==
    (last.op = "addMessage" /\ ~last.out.threw) =>
        IF LastConfig.autoSave
        THEN loadSession(files, last.out.value.id) = last.out.value
        ELSE /\ files = last.filesBefore
             /\ loadSession(files, last.out.value.id)
                  = loadSession(last.filesBefore, last.out.value.id)

\* C10 witness: addMessage compacted and folded with autoSave enabled, and the
\* stored session is the compacted one, not the one stored before.
C10_Witness ==
    /\ last.op = "addMessage"
    /\ ~last.out.threw
    /\ last.out.folded
    /\ LastConfig.autoSave
    /\ loadSession(files, last.out.value.id) = last.out.value
    /\ loadSession(last.filesBefore, last.out.value.id) # last.out.value

-----------------------------------------------------------------------------
(* The append scenario: a session is created and messages are appended to  *)
(* it one after the other, with keepRecentMessages at 10 and a ceiling     *)
(* that the running total comes to exceed.  last counts the appends, the   *)
(* compactions that folded, and remembers the append at which the total    *)
(* first exceeded the ceiling, and the service's behaviour during an       *)
(* append that called compressSession.                                     *)

\* The number of messages appended.
ScenarioAppends == 15

\* The ceilings tried: from one below the number of appends, this many more.
CeilingSpread == 3

\* The most long messages in a run; the others are one token long.
MaxLong == 1

ScenarioCeilings == (ScenarioAppends - 1)..(ScenarioAppends - 1 + CeilingSpread)

\* The scenario does not read the sessions directory: autoSave is off.
ScenarioConfigs ==
    {[maxTokens |-> n, keepRecentMessages |-> DEFAULT_KEEP_RECENT, autoSave |-> FALSE] :
        n \in ScenarioCeilings}

\* The service during one call: as in SessEnvs, or answering with a blank text.
ScenarioEnvs ==
    SessEnvs \cup
        {[enabled |-> TRUE, probe |-> "ok", svc |-> [status |-> "ok", response |-> <<" ">>]]}

ScenarioInit ==
    /\ files = <<>>
    /\ sess = Null
    /\ sessConfig \in ScenarioConfigs
    /\ clock = 0
    /\ last = [op |-> "none"]
    /\ IdleButSess

ScenarioCreate ==
    /\ sess = Null
    /\ files' = createSession(files, "claude", clock + 1, "r").fs
    /\ sess' = createSession(files, "claude", clock + 1, "r").value
    /\ last' = [op |-> "create", appended |-> 0, folds |-> 0, firstOver |-> 0, long |-> 0]
    /\ clock' = clock + 1
    /\ UNCHANGED <<sessConfig, notSess>>

\* Whether the running total, with the content appended, exceeds the ceiling.
OverCeiling(content) ==
    sess.totalTokens + estimateTokens(content) > SessionConfigOf(sessConfig).maxTokens

\* One append: the caller goes on with the session addMessage returned.
ScenarioAppended(content, env, out) ==
    /\ files' = out.fs
    /\ sess' = out.value
    /\ last' = [op |-> "append",
                appended |-> last.appended + 1,
                folds |-> last.folds + (IF out.folded THEN 1 ELSE 0),
                firstOver |-> IF last.firstOver = 0 /\ OverCeiling(content)
                              THEN last.appended + 1 ELSE last.firstOver,
                long |-> last.long + (IF Len(content) > 4 THEN 1 ELSE 0),
                folded |-> out.folded,
                env |-> IF out.compacted THEN env ELSE Null]

ScenarioAppend ==
    /\ sess # Null
    /\ last.appended < ScenarioAppends
    /\ \E content \in SessContents, env \in ScenarioEnvs :
        /\ Len(content) > 4 => last.long < MaxLong
        /\ ScenarioAppended(content, env,
                            addMessage(files, sess, "user", content, sessConfig,
                                       clock + 1, env))
    /\ clock' = clock + 1
    /\ UNCHANGED <<sessConfig, notSess>>

ScenarioNext ==
    \/ ScenarioCreate
    \/ ScenarioAppend

SpecScenario == ScenarioInit /\ [][ScenarioNext]_vars

\* The scenario is over: every message is appended.
ScenarioDone == last.op = "append" /\ last.appended = ScenarioAppends

\* The service, at the last append, was reached and answered with a text that
\* is not blank, or was reached and failed the request.
AnsweredOrFailed ==
    /\ last.env.enabled
    /\ last.env.probe = "ok"
    /\ last.env.svc.status = "ok" => Trim(last.env.svc.response) # <<>>

-----------------------------------------------------------------------------
(* Embeddings: src/src/memory/embeddings.ts, lines 1-151                   *)
(*                                                                         *)
(* The module's state is currentProvider and detectedModel (and the cached *)
(* ollamaAvailable); the embedding service's answer to a request is        *)
(* [status |-> "ok", embeddings |-> vectors], or a failure status.         *)

\* The undefined that reading a missing array element yields.
Undefined == [undefined |-> TRUE]

\* await ollama.embed({model, input}), then response.embeddings[0] read: the
\* first vector, undefined for an empty list, or an exception (a rejected or
\* timed out call, or a TypeError on a body without embeddings).
EmbedRequest(svc) ==
    IF svc.status # "ok" THEN [threw |-> TRUE]
    ELSE [threw |-> FALSE,
          value |-> IF svc.embeddings = <<>> THEN Undefined ELSE svc.embeddings[1]]

\* embed(text), with the module's currentProvider and detectedModel, which is
\* [name |-> n] or Null
embed(text, currentProvider, detectedModel, svc) ==
    IF currentProvider # "ollama" \/ detectedModel = Null THEN Returned(Null, <<>>)
    ELSE IF EmbedRequest(svc).threw THEN Returned(Null, <<[input |-> text]>>)
    ELSE Returned(EmbedRequest(svc).value, <<[input |-> text]>>)

-----------------------------------------------------------------------------
(* PipelineMemory: src/src/context/tokens.ts, lines 117-427                *)
(*                                                                         *)
(* steps, outputs and memory are functions from names to values, the names *)
(* being texts.                                                            *)

DEFAULT_SUMMARIZE_THRESHOLD == 2000

DEFAULT_MAX_INJECTION_TOKENS == 4000

\* DEFAULT_CONFIG of the pipeline memory
DEFAULT_MEMORY_CONFIG ==
    [targetAgent |-> "ollama",
     summarizeThreshold |-> DEFAULT_SUMMARIZE_THRESHOLD,
     maxInjectionTokens |-> DEFAULT_MAX_INJECTION_TOKENS,
     preferSummaries |-> TRUE]

\* createMemoryContext(prompt, initial, config)
createMemoryContext(prompt, initial, config) ==
    [initial |-> initial,
     steps |-> <<>>,
     outputs |-> <<>>,
     prompt |-> prompt,
     memory |-> <<>>,
     config |-> config @@ DEFAULT_MEMORY_CONFIG]

\* { ...object, [key]: value }
WithProperty(object, key, value) ==
    [k \in DOMAIN object \cup {key} |-> IF k = key THEN value ELSE object[k]]

\* result.content ?? ''
ContentOf(result) == IF Has(result, "content") THEN result.content ELSE <<>>

\* The memory entry of a step whose output is stored as it is.
PlainOutput(content, now) ==
    [raw |-> content,
     summary |-> content,
     tokens |-> estimateTokens(content),
     summaryTokens |-> estimateTokens(content),
     keyPoints |-> <<>>,
     timestamp |-> now]

\* The memory entry of a step over the threshold: the summary and key points
\* when both calls return, the truncated content when one of them throws, and
\* the plain entry when the summarizer is not available.
SummarizedOutput(content, targetAgent, now, available, summary, keyPoints) ==
    IF ~available.value
    THEN [entry |-> PlainOutput(content, now), calls |-> available.calls]
    ELSE IF summary.threw \/ keyPoints.threw
    THEN [entry |-> [PlainOutput(content, now) EXCEPT
                        !.summary = truncateForAgent(content, targetAgent, 0),
                        !.summaryTokens =
                            estimateTokens(truncateForAgent(content, targetAgent, 0))],
          calls |-> available.calls \o summary.calls \o keyPoints.calls]
    ELSE [entry |-> [PlainOutput(content, now) EXCEPT
                        !.summary = summary.value,
                        !.summaryTokens = estimateTokens(summary.value),
                        !.keyPoints = keyPoints.value],
          calls |-> available.calls \o summary.calls \o keyPoints.calls]

\* outputAs && content: outputAs is [name |-> n], or Undefined when it is not
\* given.
StoresOutput(result, outputAs) ==
    /\ outputAs # Undefined
    /\ outputAs.name # <<>>
    /\ ContentOf(result) # <<>>

\* The context addStepResultWithMemory returns, given the memory entry.
StoredStep(ctx, result, outputAs, output) ==
    Returned([ctx EXCEPT
                 !.steps = WithProperty(ctx.steps, result.stepId, result),
                 !.outputs = IF StoresOutput(result, outputAs)
                             THEN WithProperty(ctx.outputs, outputAs.name, ContentOf(result))
                             ELSE ctx.outputs,
                 !.memory = WithProperty(ctx.memory, result.stepId, output.entry)],
             output.calls)

\* addStepResultWithMemory(ctx, result, outputAs).  env holds the answers of
\* the service during the call: enabled and probe for isSummarizerAvailable,
\* svc for the summary request and svcKey for the key points request.
addStepResultWithMemory(ctx, result, outputAs, now, env) ==
    IF estimateTokens(ContentOf(result)) > ctx.config.summarizeThreshold
    THEN StoredStep(ctx, result, outputAs,
                    SummarizedOutput(ContentOf(result), ctx.config.targetAgent, now,
                                     isSummarizerAvailable(env.enabled, env.probe),
                                     summarizeIfNeeded(ContentOf(result),
                                                       ctx.config.summarizeThreshold,
                                                       <<>>, env.svc),
                                     extractKeyPoints(ContentOf(result), env.svcKey)))
    ELSE StoredStep(ctx, result, outputAs,
                    [entry |-> PlainOutput(ContentOf(result), now), calls |-> <<>>])

-----------------------------------------------------------------------------
(* Degradation: every function that calls the summarization or embedding   *)
(* service is called once, with every outcome of the service.  The         *)
(* Summarizer's variables hold the call: sText the text, sOpts the options *)
(* object, sSvc the service's behaviour during the call, sOut the outcome  *)
(* and sPc the function called.                                            *)

\* The length of a text long enough for extractKeyPoints to ask the service.
LongText == 400

DegTexts == {<<>>, <<"a", " ", "b">>, Repeat("x", LongText)}

DegOptions == {<<>>, [maxLength |-> 1], [preserveCode |-> FALSE]}

\* What fetch(host + '/api/tags') does within its timeout.
ProbeOutcomes == {"ok", "http_error", "unreachable", "timeout"}

\* What a generate request does: it answers, or fails in one of the ways.
DegAnswers == {[status |-> "ok", response |-> <<"-", " ", "s">>]} \cup SvcFailures

\* What an embed request does: one vector, no vector, or a failure.
EmbedOutcomes ==
    {[status |-> "ok", embeddings |-> <<[vector |-> <<1, 0>>]>>],
     [status |-> "ok", embeddings |-> <<>>]}
        \cup SvcFailures

DegEnvs ==
    [enabled : BOOLEAN, probe : ProbeOutcomes, svc : DegAnswers, svcKey : DegAnswers]

\* A token limit that leaves a positive maxLength after the 0.8 buffer.
SmallThreshold == 2

\* The token limits and thresholds given: no token, a few, or the default.
DegThresholds == {0, SmallThreshold, DEFAULT_SUMMARIZE_THRESHOLD}

DegInit ==
    /\ sText \in DegTexts
    /\ sOpts \in DegOptions
    /\ sSvc = <<>>
    /\ sOut = <<>>
    /\ sPc = "start"
    /\ IdleButSum

DegSummarize ==
    /\ sPc = "start"
    /\ \E svc \in DegAnswers :
        /\ sSvc' = [svc |-> svc]
        /\ sOut' = summarize(sText, sOpts, svc)
    /\ sPc' = "summarize"
    /\ UNCHANGED <<sText, sOpts, notSum>>

DegSummarizeIfNeeded ==
    /\ sPc = "start"
    /\ \E svc \in DegAnswers, tokenLimit \in DegThresholds :
        /\ sSvc' = [svc |-> svc]
        /\ sOut' = summarizeIfNeeded(sText, tokenLimit, sOpts, svc)
    /\ sPc' = "summarizeIfNeeded"
    /\ UNCHANGED <<sText, sOpts, notSum>>

DegExtractKeyPoints ==
    /\ sPc = "start"
    /\ \E svc \in DegAnswers :
        /\ sSvc' = [svc |-> svc]
        /\ sOut' = extractKeyPoints(sText, svc)
    /\ sPc' = "extractKeyPoints"
    /\ UNCHANGED <<sText, sOpts, notSum>>

DegIsSummarizerAvailable ==
    /\ sPc = "start"
    /\ \E enabled \in BOOLEAN, probe \in ProbeOutcomes :
        /\ sSvc' = [enabled |-> enabled, probe |-> probe]
        /\ sOut' = isSummarizerAvailable(enabled, probe)
    /\ sPc' = "isSummarizerAvailable"
    /\ UNCHANGED <<sText, sOpts, notSum>>

DegEmbed ==
    /\ sPc = "start"
    /\ \E provider \in {"fts5", "ollama"}, model \in {Null, [name |-> "nomic-embed-text"]},
          svc \in EmbedOutcomes :
        /\ sSvc' = [provider |-> provider, model |-> model, svc |-> svc]
        /\ sOut' = embed(sText, provider, model, svc)
    /\ sPc' = "embed"
    /\ UNCHANGED <<sText, sOpts, notSum>>

\* A step result with sText as its content is added to a new context.
DegAddStepResultWithMemory ==
    /\ sPc = "start"
    /\ \E env \in DegEnvs, threshold \in DegThresholds, outputAs \in {Undefined, [name |-> <<"o", "u", "t">>]} :
        /\ sSvc' = env
        /\ sOut' = addStepResultWithMemory(
                       createMemoryContext(<<"p">>, <<>>, [summarizeThreshold |-> threshold]),
                       [stepId |-> <<"s", "t", "e", "p", "_", "0">>, content |-> sText, status |-> "completed"],
                       outputAs, 1, env)
    /\ sPc' = "addStepResultWithMemory"
    /\ UNCHANGED <<sText, sOpts, notSum>>

\* sText is appended to a session that holds it once already, under a ceiling
\* of no token, so that a text of a token or more brings a compaction.
DegAddMessage ==
    /\ sPc = "start"
    /\ \E env \in DegEnvs, keep \in 0..1 :
        /\ sSvc' = env
        /\ sOut' = addMessage(<<>>,
                              WithMessage(createSession(<<>>, "claude", 1, "r").value,
                                          "user", sText, 2),
                              "assistant", sText,
                              [maxTokens |-> 0, keepRecentMessages |-> keep], 3, env)
    /\ sPc' = "addMessage"
    /\ UNCHANGED <<sText, sOpts, notSum>>

DegNext ==
    \/ DegSummarize
    \/ DegSummarizeIfNeeded
    \/ DegExtractKeyPoints
    \/ DegIsSummarizerAvailable
    \/ DegEmbed
    \/ DegAddStepResultWithMemory
    \/ DegAddMessage

SpecDegrade == DegInit /\ [][DegNext]_vars

\* C5: whatever the summarization or embedding service does (unreachable,
\* error, timeout, a malformed answer), summarize, summarizeIfNeeded,
\* extractKeyPoints, isSummarizerAvailable, embed, addStepResultWithMemory and
\* addMessage return a value and raise no exception.
C5_NoException ==
    sPc \notin {"idle", "start"} =>
        /\ ~sOut.threw
        /\ "value" \in DOMAIN sOut

\* C5 witness: addStepResultWithMemory found the summarizer available, asked
\* for a summary and for key points, both requests failed, and it returned.
C5_Witness ==
    /\ sPc = "addStepResultWithMemory"
    /\ sSvc.enabled
    /\ sSvc.probe = "ok"
    /\ sSvc.svc.status = "timeout"
    /\ sSvc.svcKey.status = "unreachable"
    /\ Len(sOut.calls) = 3
    /\ ~sOut.threw
    /\ sOut.value.memory[<<"s", "t", "e", "p", "_", "0">>].keyPoints # <<>>

-----------------------------------------------------------------------------
(* MemoryStore: src/src/memory/sessions.ts, lines 429-812 (the module      *)
(* ./vector-store), over the embeddings module.                            *)
(*                                                                         *)
(* The module state is the record m: memory is the rows of the memory      *)
(* table in rowid order, nextId the next AUTOINCREMENT id, initialized,    *)
(* lanceDb (whether a connection is held) and lanceTable (Null or the      *)
(* records of the vector table) the store's variables, currentProvider,    *)
(* detectedModel and ollamaAvailable those of the embeddings module.       *)
(* A score is kept in hundredths: 10 is 0.1.  The magnitude bm25 gives a   *)
(* row is the environment's: it is drawn when the row is inserted and kept *)
(* in the row as weight.  The FTS index holds the words of content and     *)
(* type as they are (the porter stemmer is left out: the words used are    *)
(* their own stems), and a query is a list of words, all of which a        *)
(* matching row holds.                                                     *)

DEFAULT_LIMIT == 10

\* The characters that searchFTS replaces by a space.
FTS_SPECIAL == {"'", "\"", "*", "(", ")", "^"}

\* query.replace(/['"*()^]/g, ' ').trim()
EscapeQuery(query) ==
    Trim([i \in 1..Len(query) |-> IF query[i] \in FTS_SPECIAL THEN " " ELSE query[i]])

RECURSIVE Words(_)
\* The words of a text: its maximal runs of characters other than white space.
Words(s) ==
    LET t == TrimStart(s)
        ends == {i \in 1..Len(t) : t[i] \in WhiteSpace}
        end == IF ends = {} THEN Len(t) + 1 ELSE CHOOSE i \in ends : \A j \in ends : i <= j
    IN  IF t = <<>> THEN <<>>
        ELSE <<SubSeq(t, 1, end - 1)>> \o Words(SubSeq(t, end, Len(t)))

\* The set of the elements of a sequence.
Range(seq) == {seq[i] : i \in 1..Len(seq)}

\* The characters of a memory type's name.
TypeChars(type) ==
    CASE type = "conversation" ->
           <<"c", "o", "n", "v", "e", "r", "s", "a", "t", "i", "o", "n">>
      [] type = "code" -> <<"c", "o", "d", "e">>
      [] type = "decision" -> <<"d", "e", "c", "i", "s", "i", "o", "n">>
      [] type = "pattern" -> <<"p", "a", "t", "t", "e", "r", "n">>
      [] type = "context" -> <<"c", "o", "n", "t", "e", "x", "t">>

\* memory_fts MATCH ?: every word of the query is in a column of the row
\* (content or type).
FtsMatch(row, escapedQuery) ==
    Range(Words(escapedQuery)) \subseteq Range(Words(row.content)) \cup {TypeChars(row.type)}

\* A stable sort, the greatest key first: keys[i] is the key of seq[i], and
\* elements of equal keys keep their order.
SortDescBy(seq, keys) ==
    LET Rank(i) == Cardinality({j \in 1..Len(seq) :
                       keys[j] > keys[i] \/ (keys[j] = keys[i] /\ j < i)}) + 1
    IN  [k \in 1..Len(seq) |-> seq[CHOOSE i \in 1..Len(seq) : Rank(i) = k]]

\* The first n elements, for n >= 0.
Take(seq, n) == SubSeq(seq, 1, Min(n, Len(seq)))

\* options.limit || 10
EffectiveLimit(options) ==
    IF Has(options, "limit") /\ options.limit # 0 THEN options.limit ELSE DEFAULT_LIMIT

\* Whether options.type is given (and truthy: a type name is not empty).
HasType(options) == Has(options, "type")

\* The MemoryItem made of a row of the memory table.
ItemOfRow(row) ==
    [id |-> row.id, type |-> row.type, content |-> row.content,
     createdAt |-> row.created_at, updatedAt |-> row.updated_at]

\* LIMIT n of SQLite: a negative n is no limit.
SqlLimit(rows, n) == IF n < 0 THEN rows ELSE Take(rows, n)

\* searchFTS(query, options) on the rows of the memory table: the rows that
\* match, the best bm25 first (equal ranks in rowid order), Math.abs(bm25) as
\* the score.
searchFTS(memory, query, options) ==
    LET matching == SelectSeq(memory, LAMBDA row :
                        /\ FtsMatch(row, EscapeQuery(query))
                        /\ HasType(options) => row.type = options.type)
        ranked == SortDescBy(matching, [i \in 1..Len(matching) |-> matching[i].weight])
    IN  IF EscapeQuery(query) = <<>> THEN <<>>
        ELSE [i \in 1..Len(SqlLimit(ranked, EffectiveLimit(options))) |->
                 [item |-> ItemOfRow(ranked[i]), score |-> ranked[i].weight]]

\* getRecent(options): the newest rows first (equal times in rowid order).
getRecent(memory, options) ==
    LET ofType == SelectSeq(memory, LAMBDA row :
                      HasType(options) => row.type = options.type)
        newest == SortDescBy(ofType, [i \in 1..Len(ofType) |-> ofType[i].created_at])
    IN  [i \in 1..Len(SqlLimit(newest, EffectiveLimit(options))) |-> ItemOfRow(newest[i])]

\* EMBEDDING_MODELS, in order of preference
EMBEDDING_MODELS ==
    <<<<"n", "o", "m", "i", "c", "-", "e", "m", "b", "e", "d", "-", "t", "e", "x", "t">>,
      <<"m", "x", "b", "a", "i", "-", "e", "m", "b", "e", "d">>,
      <<"a", "l", "l", "-", "m", "i", "n", "i", "l", "m">>>>

\* EMBEDDING_MODELS.some(em => name.startsWith(em))
IsEmbeddingModel(name) ==
    \E i \in 1..Len(EMBEDDING_MODELS) : MatchAt(name, EMBEDDING_MODELS[i], 0)

\* models.models.find(...): the listed embedding models, the first one first
FoundModels(models) == SelectSeq(models, IsEmbeddingModel)

\* The embeddings module at load: currentProvider, ollamaAvailable (Null or
\* [bool |-> b]) and detectedModel (Null or [name |-> n]).
EmbeddingsAtLoad ==
    [currentProvider |-> "fts5", ollamaAvailable |-> Null, detectedModel |-> Null]

\* The embeddings module once the availability is known.
Availability(e, found) ==
    IF found = <<>> THEN [e EXCEPT !.ollamaAvailable = [bool |-> FALSE]]
    ELSE [e EXCEPT !.detectedModel = [name |-> found[1]],
                   !.ollamaAvailable = [bool |-> TRUE]]

\* isOllamaAvailable() from the answer of ollama.list() on, on the module as
\* it is when the answer comes.
Listed(e, list) ==
    IF list.status # "ok"
    THEN [em |-> [e EXCEPT !.ollamaAvailable = [bool |-> FALSE]], value |-> FALSE]
    ELSE [em |-> Availability(e, FoundModels(list.models)),
          value |-> FoundModels(list.models) # <<>>]

\* isOllamaAvailable(): the module afterwards and the value returned.  list is
\* what ollama.list() does: [status |-> "ok", models |-> names] or a failure.
isOllamaAvailable(e, list) ==
    IF e.ollamaAvailable # Null THEN [em |-> e, value |-> e.ollamaAvailable.bool]
    ELSE Listed(e, list)

\* The module with the provider that the availability selects.
WithProvider(available) ==
    [em |-> [available.em EXCEPT
                !.currentProvider = IF available.value THEN "ollama" ELSE "fts5"],
     value |-> IF available.value THEN "ollama" ELSE "fts5"]

\* initEmbeddings()
initEmbeddings(e, list) == WithProvider(isOllamaAvailable(e, list))

\* The vector-store module at load, on an empty memory table.
StoreAtLoad ==
    [memory |-> <<>>, nextId |-> 1, initialized |-> FALSE,
     lanceDb |-> Null, lanceTable |-> Null]

\* The connection that lancedb.connect(dbPath) gives.
LANCE_CONNECTION == [path |-> "vectors"]

\* initLanceDB().  lance is what the vector database does: connect and open
\* are "ok" or "error", table is the records of the table on disk.
initLanceDB(st, lance) ==
    IF lance.connect # "ok" THEN [st EXCEPT !.lanceDb = Null, !.lanceTable = Null]
    ELSE IF lance.open # "ok"
    THEN [st EXCEPT !.lanceDb = LANCE_CONNECTION, !.lanceTable = Null]
    ELSE [st EXCEPT !.lanceDb = LANCE_CONNECTION,
                    !.lanceTable = [records |-> lance.table]]

\* initVectorStore(), under any provider: the store afterwards and the calls
\* made to the vector database.
initVectorStoreAnyProvider(st, e, lance) ==
    IF st.initialized THEN [st |-> st, calls |-> <<>>]
    ELSE [st |-> [initLanceDB(st, lance) EXCEPT !.initialized = TRUE],
          calls |-> <<[lance |-> "connect"]>>]

\* initVectorStore(): the store afterwards and the calls made to the vector
\* database.  The memory table and its FTS index are there from the start.
initVectorStore(st, e, lance) ==
    IF st.initialized THEN [st |-> st, calls |-> <<>>]
    ELSE IF e.currentProvider = "ollama"
    THEN [st |-> [initLanceDB(st, lance) EXCEPT !.initialized = TRUE],
          calls |-> <<[lance |-> "connect"]>>]
    ELSE [st |-> [st EXCEPT !.initialized = TRUE], calls |-> <<>>]

\* Whether an embedding is there: neither null nor undefined.
Truthy(embedding) == embedding \notin {Null, Undefined}

\* addToLanceDB(content, type, embedding); add is what createTable or add of
\* the vector database does.  The record's timestamp is never read and is
\* left out.
addToLanceDB(st, content, type, embedding, add) ==
    IF st.lanceDb = Null \/ add # "ok" THEN st
    ELSE IF st.lanceTable = Null
    THEN [st EXCEPT !.lanceTable =
             [records |-> <<[content |-> content, type |-> type,
                             vector |-> embedding.vector]>>]]
    ELSE [st EXCEPT !.lanceTable.records =
             Append(@, [content |-> content, type |-> type,
                        vector |-> embedding.vector])]

\* The INSERT of addMemory and the rowid it returns.  weight is the magnitude
\* of the rank that the FTS index gives the row.
InsertMemory(st, item, embeddingBlob, now, weight) ==
    [st |-> [st EXCEPT
                !.memory = Append(@, [id |-> st.nextId, type |-> item.type,
                                      content |-> item.content,
                                      embedding |-> embeddingBlob,
                                      created_at |-> now, updated_at |-> now,
                                      weight |-> weight]),
                !.nextId = @ + 1],
     value |-> st.nextId]

\* Buffer.from(new Float32Array(embedding).buffer)
BlobOf(embedding) == [blob |-> embedding.vector]

\* addMemory from the embedding on, the insert failing with the write to the
\* vector table.
AddEmbeddedIfIndexed(st, e, item, embedding, now, weight, add) ==
    IF e.currentProvider = "ollama" /\ Truthy(embedding)
    THEN IF st.lanceDb # Null /\ add # "ok" THEN [st |-> st, value |-> 0]
         ELSE InsertMemory(addToLanceDB(st, item.content, item.type, embedding, add),
                           item, BlobOf(embedding), now, weight)
    ELSE InsertMemory(st, item, Null, now, weight)

\* addMemory from the embedding on.
AddEmbedded(st, e, item, embedding, now, weight, add) ==
    IF e.currentProvider = "ollama" /\ Truthy(embedding)
    THEN InsertMemory(addToLanceDB(st, item.content, item.type, embedding, add),
                      item, BlobOf(embedding), now, weight)
    ELSE InsertMemory(st, item, Null, now, weight)

\* addMemory(item), for an item without metadata: the store afterwards and
\* the id returned.  env.lance, env.svc and env.add are what the vector
\* database and the embedding service do.
addMemory(st, e, item, now, weight, env) ==
    AddEmbedded(initVectorStore(st, e, env.lance).st, e, item,
                embed(item.content, e.currentProvider, e.detectedModel, env.svc).value,
                now, weight, env.add)

\* The _distance of the vector database: the squared L2 distance, in
\* hundredths.
Distance(a, b) ==
    LET Square(x) == x * x
        RECURSIVE SumFrom(_)
        SumFrom(i) == IF i > Len(a) THEN 0 ELSE Square(a[i] - b[i]) + SumFrom(i + 1)
    IN  100 * SumFrom(1)

\* lanceTable.search(v).limit(n).toArray(): the n nearest records.
Nearest(records, vector, n) ==
    Take(SortDescBy(records, [i \in 1..Len(records) |-> -Distance(records[i].vector, vector)]), n)

\* The results of searchVector out of the nearest records.
VectorResults(nearest, vector, options) ==
    LET filtered == SelectSeq(nearest, LAMBDA r : HasType(options) => r.type = options.type)
    IN  [i \in 1..Len(filtered) |->
            [item |-> [type |-> filtered[i].type, content |-> filtered[i].content],
             score |-> 100 - Distance(filtered[i].vector, vector)]]

\* The call of searchVector to the vector database.
SearchCall(vector, n) == [search |-> vector, limit |-> n]

\* searchVector from the embedding on, with the fallback returning nothing.
SearchEmbeddedNoFallback(st, query, options, embedded, nn) ==
    IF ~Truthy(embedded.value)
    THEN Returned(<<>>, embedded.calls)
    ELSE IF nn # "ok"
    THEN Returned(<<>>,
                  Append(embedded.calls, SearchCall(embedded.value.vector, EffectiveLimit(options))))
    ELSE Returned(VectorResults(Nearest(st.lanceTable.records, embedded.value.vector,
                                        EffectiveLimit(options)),
                                embedded.value.vector, options),
                  Append(embedded.calls, SearchCall(embedded.value.vector, EffectiveLimit(options))))

\* searchVector from the embedding on.  nn is what toArray() does: "ok" or
\* "error".
SearchEmbedded(st, query, options, embedded, nn) ==
    IF ~Truthy(embedded.value)
    THEN Returned(searchFTS(st.memory, query, options), embedded.calls)
    ELSE IF nn # "ok"
    THEN Returned(searchFTS(st.memory, query, options),
                  Append(embedded.calls, SearchCall(embedded.value.vector, EffectiveLimit(options))))
    ELSE Returned(VectorResults(Nearest(st.lanceTable.records, embedded.value.vector,
                                        EffectiveLimit(options)),
                                embedded.value.vector, options),
                  Append(embedded.calls, SearchCall(embedded.value.vector, EffectiveLimit(options))))

\* searchVector(query, options): the value returned and the calls made to
\* the embedding service and to the vector database.
searchVector(st, e, query, options, env) ==
    IF st.lanceTable = Null \/ e.currentProvider # "ollama"
    THEN Returned(searchFTS(st.memory, query, options), <<>>)
    ELSE SearchEmbedded(st, query, options,
                        embed(query, e.currentProvider, e.detectedModel, env.svc), env.nn)

\* search after initVectorStore.
SearchInitialized(init, e, query, options, env) ==
    IF init.st.lanceTable # Null /\ e.currentProvider = "ollama"
    THEN [st |-> init.st, out |-> searchVector(init.st, e, query, options, env),
          initCalls |-> init.calls]
    ELSE [st |-> init.st,
          out |-> Returned(searchFTS(init.st.memory, query, options), <<>>),
          initCalls |-> init.calls]

\* search(query, options): the store afterwards, the outcome, and the calls
\* that the initialisation made.
search(st, e, query, options, env) ==
    SearchInitialized(initVectorStore(st, e, env.lance), e, query, options, env)

\* deleteMemory(id): the store afterwards and the value returned.
deleteMemory(st, id) ==
    [st |-> [st EXCEPT !.memory = SelectSeq(@, LAMBDA row : row.id # id)],
     value |-> \E i \in 1..Len(st.memory) : st.memory[i].id = id]

-----------------------------------------------------------------------------
(* Retriever: src/src/memory/retriever.ts                                  *)

RETRIEVE_LIMIT == 10

\* minScore = 0.1, in hundredths
RETRIEVE_MIN_SCORE == 10

RETRIEVE_MAX_TOKENS == 4000

\* The score 0.05 of a recency-only item, in hundredths
RECENCY_SCORE == 5

\* The limit that buildContext passes to retrieve
BUILD_CONTEXT_LIMIT == 20

\* estimateTokens(text) of the retriever: Math.ceil(text.length / 4)
retrieverEstimateTokens(text) == (Len(text) + 3) \div 4

\* Math.ceil(a / b), for b > 0
CeilDiv(a, b) == -((-a) \div b)

\* The options of retrieve with the defaults of its destructuring.
RetrieveDefaults(options) ==
    options @@ [limit |-> RETRIEVE_LIMIT, includeRecent |-> TRUE,
                minScore |-> RETRIEVE_MIN_SCORE, maxTokens |-> RETRIEVE_MAX_TOKENS]

\* types && types.length > 0
HasTypes(o) == Has(o, "types") /\ o.types # <<>>

\* What the searches of retrieve have gathered, one search more.
Gathered(acc, found) ==
    [st |-> found.st, results |-> acc.results \o found.out.value,
     calls |-> acc.calls \o found.initCalls \o found.out.calls]

RECURSIVE SearchTypes(_, _, _, _, _, _)
\* for (const type of types) results.push(...await search(query, {type, limit}))
SearchTypes(acc, e, query, types, perType, env) ==
    IF types = <<>> THEN acc
    ELSE SearchTypes(Gathered(acc, search(acc.st, e, query,
                                          [type |-> Head(types), limit |-> perType], env)),
                     e, query, Tail(types), perType, env)

\* The searches of retrieve: by each type if given, otherwise over all.
Searched(st, e, query, o, env) ==
    IF HasTypes(o)
    THEN SearchTypes([st |-> st, results |-> <<>>, calls |-> <<>>], e, query, o.types,
                     CeilDiv(o.limit, Len(o.types)), env)
    ELSE Gathered([st |-> st, results |-> <<>>, calls |-> <<>>],
                  search(st, e, query, [limit |-> o.limit], env))

\* results.filter(r => r.score >= minScore), sorted by score descending
Ranked(results, minScore) ==
    LET kept == SelectSeq(results, LAMBDA r : r.score >= minScore)
    IN  SortDescBy(kept, [i \in 1..Len(kept) |-> kept[i].score])

\* item.id as a Set holds it: the id, or undefined for an item without one.
IdOf(item) == IF Has(item, "id") THEN [id |-> item.id] ELSE Undefined

\* The options that retrieve passes to getRecent.
RecentOptions(o, room) ==
    IF HasTypes(o) THEN [limit |-> room, type |-> o.types[1]] ELSE [limit |-> room]

\* The recent items that are not already in the results, as results.
NewRecent(recentItems, filtered) ==
    LET fresh == SelectSeq(recentItems, LAMBDA item :
                     IdOf(item) \notin {IdOf(filtered[i].item) : i \in 1..Len(filtered)})
    IN  [i \in 1..Len(fresh) |-> [item |-> fresh[i], score |-> RECENCY_SCORE]]

\* The results with the recent items added if requested and there is room.
WithRecent(memory, filtered, o) ==
    IF o.includeRecent /\ Len(filtered) < o.limit
    THEN filtered \o NewRecent(getRecent(memory, RecentOptions(o, o.limit - Len(filtered))),
                               filtered)
    ELSE filtered

RECURSIVE PackedLate(_, _, _, _)
\* The token loop with the item pushed before the ceiling is looked at.
PackedLate(rest, maxTokens, items, totalTokens) ==
    IF rest = <<>> \/ totalTokens > maxTokens
    THEN [items |-> items, totalTokens |-> totalTokens]
    ELSE PackedLate(Tail(rest), maxTokens, Append(items, Head(rest)),
                    totalTokens + retrieverEstimateTokens(Head(rest).content))

RECURSIVE PackedSkipping(_, _, _, _)
\* The token loop passing over an item that would exceed the ceiling and
\* going on with the next.
PackedSkipping(rest, maxTokens, items, totalTokens) ==
    IF rest = <<>> THEN [items |-> items, totalTokens |-> totalTokens]
    ELSE IF totalTokens + retrieverEstimateTokens(Head(rest).content) > maxTokens
    THEN PackedSkipping(Tail(rest), maxTokens, items, totalTokens)
    ELSE PackedSkipping(Tail(rest), maxTokens, Append(items, Head(rest)),
                        totalTokens + retrieverEstimateTokens(Head(rest).content))

RECURSIVE Packed(_, _, _, _)
\* The token loop of retrieve and retrieveByType: the items in order, until
\* the next one would exceed maxTokens.
Packed(rest, maxTokens, items, totalTokens) ==
    IF rest = <<>> THEN [items |-> items, totalTokens |-> totalTokens]
    ELSE IF totalTokens + retrieverEstimateTokens(Head(rest).content) > maxTokens
    THEN [items |-> items, totalTokens |-> totalTokens]
    ELSE Packed(Tail(rest), maxTokens, Append(items, Head(rest)),
                totalTokens + retrieverEstimateTokens(Head(rest).content))

\* The items of results.
ItemsOf(results) == [i \in 1..Len(results) |-> results[i].item]

\* retrieve from the search results on.
Retrieved(gathered, e, o) ==
    [st |-> gathered.st,
     value |-> Packed(ItemsOf(Slice(WithRecent(gathered.st.memory,
                                                Ranked(gathered.results, o.minScore), o),
                                     0, o.limit)),
                      o.maxTokens, <<>>, 0)
               @@ [searchMethod |-> IF e.currentProvider = "ollama" THEN "vector" ELSE "fts5"],
     calls |-> gathered.calls]

\* retrieve(query, options): the store afterwards, the RetrievalResult and
\* the calls made to the embedding service and to the vector database.
retrieve(st, e, query, options, env) ==
    Retrieved(Searched(st, e, query, RetrieveDefaults(options), env), e,
              RetrieveDefaults(options))

\* retrieveByType(type, options)
retrieveByType(memory, type, options) ==
    LET o == options @@ [limit |-> RETRIEVE_LIMIT, maxTokens |-> RETRIEVE_MAX_TOKENS]
    IN  Packed(getRecent(memory, [type |-> type, limit |-> o.limit]), o.maxTokens, <<>>, 0)
        @@ [searchMethod |-> "recency"]

MEMORY_TYPES == {"conversation", "code", "decision", "pattern", "context"}

\* The types that buildContext asks for, out of its include flags.
ContextTypes(options) ==
    LET o == options @@ [includeConversation |-> TRUE, includeCode |-> TRUE,
                         includeDecisions |-> TRUE, includePatterns |-> TRUE]
    IN  (IF o.includeConversation THEN <<"conversation">> ELSE <<>>)
        \o (IF o.includeCode THEN <<"code">> ELSE <<>>)
        \o (IF o.includeDecisions THEN <<"decision">> ELSE <<>>)
        \o (IF o.includePatterns THEN <<"pattern">> ELSE <<>>)

\* buildContext from the result of retrieve on.
ContextOf(retrieved) ==
    [st |-> retrieved.st,
     value |-> [items |-> retrieved.value.items,
                totalTokens |-> retrieved.value.totalTokens,
                breakdown |-> [t \in MEMORY_TYPES |->
                    Cardinality({i \in 1..Len(retrieved.value.items) :
                                    retrieved.value.items[i].type = t})]],
     calls |-> retrieved.calls]

\* buildContext(query, options)
buildContext(st, e, query, options, env) ==
    ContextOf(retrieve(st, e, query,
                       [types |-> ContextTypes(options),
                        maxTokens |-> (options @@ [maxTokens |-> RETRIEVE_MAX_TOKENS]).maxTokens,
                        limit |-> BUILD_CONTEXT_LIMIT],
                       env))

-----------------------------------------------------------------------------
(* The memory store and the retriever over it: the embeddings are          *)
(* initialised, items are added and deleted, and then one read is made.    *)

\* The most rows ever inserted in the memory table.
MaxRows == 2

\* The largest maxTokens asked for.
MaxBudget == 3

\* The items stored, with the magnitudes of their ranks: contents of one
\* token and of three, a rank above the default minScore and one below the
\* score of a recent item.
MemItems ==
    {[type |-> "code", content |-> <<"c", "a", "t">>, weight |-> 5 * RETRIEVE_MIN_SCORE],
     [type |-> "pattern", content |-> <<"c", "a", "t", " ", "d", "o", "g", " ", "c", "a", "t">>,
      weight |-> RECENCY_SCORE - 1]}

MemTypes == {"code", "pattern"}

\* The queries: a quoted word, a word, and special characters only.
MemQueries ==
    {<<"'", "c", "a", "t", "'">>, <<"d", "o", "g">>, <<"(", "*", ")">>}

\* The embedding service as a function of the text.
VectorOf(text) ==
    IF <<"d", "o", "g">> \in Range(Words(EscapeQuery(text))) THEN <<0, 1>> ELSE <<1, 0>>

\* What ollama.list() does: an embedding model among the models, none, or a
\* failure.
ListOutcomes ==
    {[status |-> "ok",
      models |-> << <<"l", "l", "a", "m", "a">>,
                    <<"n", "o", "m", "i", "c", "-", "e", "m", "b", "e", "d", "-", "t", "e",
                      "x", "t", ":", "v", "1">> >>],
     [status |-> "ok", models |-> << <<"l", "l", "a", "m", "a">> >>],
     [status |-> "error"]}

\* The vector table that an earlier run has left on disk: a record of an item
\* that is not in the memory table.
PersistedTable ==
    <<[content |-> <<"d", "o", "g">>, type |-> "code", vector |-> <<0, 1>>]>>

\* What the vector database does when it is initialised, asked only while
\* the semantic provider is active and the store is not initialised.
LanceOutcomes(st, e) ==
    IF st.initialized \/ e.currentProvider # "ollama"
    THEN {[connect |-> "error", open |-> "error", table |-> <<>>]}
    ELSE {[connect |-> "error", open |-> "error", table |-> <<>>],
          [connect |-> "ok", open |-> "error", table |-> <<>>],
          [connect |-> "ok", open |-> "ok", table |-> PersistedTable]}

\* The embedding service answering with the vector of the text.
Embeds(text) == [status |-> "ok", embeddings |-> <<[vector |-> VectorOf(text)]>>]

\* What the embedding service and the vector table do during a read, asked
\* only while the semantic provider is active: both work, the search
\* raises, the service gives no vector, or the service fails.
ReadOutcomes(e, text) ==
    IF e.currentProvider # "ollama" THEN {[svc |-> [status |-> "error"], nn |-> "error"]}
    ELSE {[svc |-> Embeds(text), nn |-> "ok"],
          [svc |-> Embeds(text), nn |-> "error"],
          [svc |-> [status |-> "ok", embeddings |-> <<>>], nn |-> "ok"],
          [svc |-> [status |-> "error"], nn |-> "ok"]}

\* The environment of one read on a text.
ReadEnvs(st, e, text) ==
    {[lance |-> l] @@ r : l \in LanceOutcomes(st, e), r \in ReadOutcomes(e, text)}

\* What the embedding service and the vector table do during addMemory.
AddOutcomes(e, text) ==
    IF e.currentProvider # "ollama" THEN {[svc |-> [status |-> "error"], add |-> "error"]}
    ELSE {[svc |-> Embeds(text), add |-> "ok"],
          [svc |-> Embeds(text), add |-> "error"],
          [svc |-> [status |-> "ok", embeddings |-> <<>>], add |-> "ok"],
          [svc |-> [status |-> "error"], add |-> "ok"]}

\* The environment of one addMemory on a text.
AddEnvs(st, e, text) ==
    {[lance |-> l] @@ r : l \in LanceOutcomes(st, e), r \in AddOutcomes(e, text)}

\* The options of search and searchVector.
SearchOptions ==
    LET types == {<<>>} \cup {[type |-> t] : t \in MemTypes}
        limits == {<<>>} \cup {[limit |-> n] : n \in 0..(MaxRows - 1)}
    IN  {t @@ l : t \in types, l \in limits}

\* The token ceilings asked for: absent, negative, none, and MaxBudget.
Budgets == {<<>>} \cup {[maxTokens |-> n] : n \in {-1, 0, MaxBudget}}

\* The options of retrieve.
RetrieveOptions ==
    LET others == {<<>>, [limit |-> MaxRows - 1], [types |-> <<"code">>],
                   [types |-> <<"code", "pattern">>, includeRecent |-> FALSE],
                   [minScore |-> 0]}
    IN  {o @@ b : o \in others, b \in Budgets}

\* The options of retrieveByType.
ByTypeOptions == {l @@ b : l \in {<<>>, [limit |-> MaxRows - 1]}, b \in Budgets}

\* The options of buildContext.
ContextOptions ==
    {c @@ b : c \in {<<>>, [includeCode |-> FALSE]}, b \in Budgets}

MemInit ==
    /\ vs = StoreAtLoad
    /\ em = EmbeddingsAtLoad
    /\ mClock = 0
    /\ ret = [op |-> "none"]
    /\ IdleButMem

InitEmbeddings ==
    /\ ret.op = "none"
    /\ \E list \in ListOutcomes : em' = initEmbeddings(em, list).em
    /\ UNCHANGED <<vs, mClock, ret, notMem>>

AddMemory ==
    /\ ret.op = "none"
    /\ vs.nextId <= MaxRows
    /\ \E item \in MemItems :
        \E env \in AddEnvs(vs, em, item.content) :
            vs' = addMemory(vs, em, [type |-> item.type, content |-> item.content],
                            mClock + 1, item.weight, env).st
    /\ mClock' = mClock + 1
    /\ UNCHANGED <<em, ret, notMem>>

\* The store and the record of a read that went through search.
Searches(op, query, options, env, before, found) ==
    /\ vs' = found.st
    /\ ret' = [op |-> op, query |-> query, options |-> options, env |-> env,
               before |-> before, out |-> found.out,
               calls |-> found.initCalls \o found.out.calls]

Search ==
    /\ ret.op = "none"
    /\ \E query \in MemQueries, options \in SearchOptions :
        \E env \in ReadEnvs(vs, em, query) :
            Searches("search", query, options, env, vs, search(vs, em, query, options, env))
    /\ UNCHANGED <<em, mClock, notMem>>

SearchVector ==
    /\ ret.op = "none"
    /\ \E query \in MemQueries, options \in SearchOptions :
        \E env \in ReadEnvs(vs, em, query) :
            ret' = [op |-> "searchVector", query |-> query, options |-> options,
                    env |-> env, before |-> vs,
                    out |-> searchVector(vs, em, query, options, env)]
    /\ UNCHANGED <<vs, em, mClock, notMem>>

\* The store and the record of a read that went through retrieve.
Retrieves(op, query, options, env, before, retrieved) ==
    /\ vs' = retrieved.st
    /\ ret' = [op |-> op, query |-> query, options |-> options, env |-> env,
               before |-> before, value |-> retrieved.value, calls |-> retrieved.calls]

Retrieve ==
    /\ ret.op = "none"
    /\ \E query \in MemQueries, options \in RetrieveOptions :
        \E env \in ReadEnvs(vs, em, query) :
            Retrieves("retrieve", query, options, env, vs,
                      retrieve(vs, em, query, options, env))
    /\ UNCHANGED <<em, mClock, notMem>>

RetrieveByType ==
    /\ ret.op = "none"
    /\ \E type \in MemTypes, options \in ByTypeOptions :
        ret' = [op |-> "retrieveByType", type |-> type, options |-> options,
                value |-> retrieveByType(vs.memory, type, options)]
    /\ UNCHANGED <<vs, em, mClock, notMem>>

BuildContext ==
    /\ ret.op = "none"
    /\ \E query \in MemQueries, options \in ContextOptions :
        \E env \in ReadEnvs(vs, em, query) :
            Retrieves("buildContext", query, options, env, vs,
                      buildContext(vs, em, query, options, env))
    /\ UNCHANGED <<em, mClock, notMem>>

MemNext ==
    \/ InitEmbeddings
    \/ AddMemory
    \/ Search
    \/ SearchVector
    \/ Retrieve
    \/ RetrieveByType
    \/ BuildContext

SpecMemory == MemInit /\ [][MemNext]_vars

RECURSIVE ItemTokens(_)
\* The sum of the estimated token counts of items.
ItemTokens(items) ==
    IF items = <<>> THEN 0
    ELSE retrieverEstimateTokens(Head(items).content) + ItemTokens(Tail(items))

\* The maxTokens that the last read asked for: the one given, or the default.
RequestedMaxTokens == (ret.options @@ [maxTokens |-> RETRIEVE_MAX_TOKENS]).maxTokens

\* C1: the items that retrieve, retrieveByType and buildContext return have
\* estimated token counts that sum to at most the requested maxTokens, and the
\* totalTokens reported is that sum.  No set of items sums to less than 0:
\* under a negative maxTokens nothing is returned.
C1_TokenCeiling ==
    ret.op \in {"retrieve", "retrieveByType", "buildContext"} =>
        /\ ret.value.totalTokens = ItemTokens(ret.value.items)
        /\ RequestedMaxTokens >= 0 => ItemTokens(ret.value.items) <= RequestedMaxTokens
        /\ RequestedMaxTokens < 0 => ret.value.items = <<>>

\* retrieve over two stored items, under a ceiling that has room for the first
\* only.
C1_Witness ==
    /\ ret.op = "retrieve"
    /\ DOMAIN ret.options = {"maxTokens"}
    /\ ret.options.maxTokens > 0
    /\ Len(vs.memory) = MaxRows
    /\ Len(ret.value.items) = 1
    /\ ret.value.totalTokens = ret.options.maxTokens

\* C4: while no semantic provider is active, search(query, {type, limit})
\* returns what searchFTS(query, {type, limit}) returns, and calls neither the
\* embedding service nor the vector database.
C4_KeywordOnly ==
    ret.op = "search" /\ em.currentProvider # "ollama" =>
        /\ ~ret.out.threw
        /\ ret.out.value = searchFTS(vs.memory, ret.query, ret.options)
        /\ ret.calls = <<>>

\* search by type and limit with the keyword provider, after the detection
\* has found no embedding model, finding an item.
C4_Witness ==
    /\ ret.op = "search"
    /\ em.currentProvider = "fts5"
    /\ em.ollamaAvailable = [bool |-> FALSE]
    /\ DOMAIN ret.options = {"type", "limit"}
    /\ ret.out.value # <<>>

\* The vector index is active: there is a vector table and the provider is
\* the semantic one.
VectorActive(st, e) == st.lanceTable # Null /\ e.currentProvider = "ollama"

\* The embedding of the last read's query is unavailable.
EmbeddingUnavailable ==
    ~Truthy(embed(ret.query, em.currentProvider, em.detectedModel, ret.env.svc).value)

\* C8: when the vector index is active and a stage of searchVector fails (no
\* embedding of the query, or the nearest-neighbour search raises),
\* searchVector returns what searchFTS returns for the same query, type and
\* limit, and does not raise.
C8_VectorFallback ==
    /\ ret.op = "searchVector"
    /\ VectorActive(ret.before, em)
    /\ EmbeddingUnavailable \/ ret.env.nn # "ok"
    => /\ ~ret.out.threw
       /\ ret.out.value = searchFTS(vs.memory, ret.query, ret.options)

\* searchVector with the index active, the query embedded and the
\* nearest-neighbour search raising, the keyword search finding an item.
C8_Witness ==
    /\ ret.op = "searchVector"
    /\ VectorActive(ret.before, em)
    /\ ~EmbeddingUnavailable
    /\ ret.env.nn = "error"
    /\ ret.out.value # <<>>

-----------------------------------------------------------------------------
(* Overlapping calls of isOllamaAvailable and initEmbeddings                *)
(* (src/src/memory/embeddings.ts, lines 40-78).  A call that finds no      *)
(* cached availability awaits ollama.list(); other calls run meanwhile.    *)

\* The calls made in a run.
MaxCalls == 3

CallIds == 1..MaxCalls

\* The module once initEmbeddings has its availability, and for
\* isOllamaAvailable as it is.
AfterCall(op, available) == IF op = "initEmbeddings" THEN WithProvider(available).em ELSE available.em

\* What a call has returned: the availability, the detected model, whether
\* the service was contacted, and whether the call began after the first
\* completion.
ReturnedAvailability(c, op, available, contacted, later) ==
    [op |-> op, call |-> c, value |-> available.value,
     model |-> available.em.detectedModel, contacted |-> contacted, later |-> later]

AvailInit ==
    /\ em = EmbeddingsAtLoad
    /\ inflight = [c \in CallIds |-> [pc |-> "new"]]
    /\ hist = [first |-> Null]
    /\ ret = [op |-> "none"]
    /\ vs = <<>>
    /\ mClock = 0
    /\ TokIdle /\ SumIdle /\ SessIdle /\ PipeIdle

\* A call begins: with a cached availability it returns at once, otherwise
\* it asks the service for its models and waits.
StartAvailability ==
    /\ \E c \in CallIds, op \in {"isOllamaAvailable", "initEmbeddings"} :
        /\ inflight[c].pc = "new"
        /\ IF em.ollamaAvailable # Null
           THEN /\ em' = AfterCall(op, [em |-> em, value |-> em.ollamaAvailable.bool])
                /\ ret' = ReturnedAvailability(c, op,
                              [em |-> em, value |-> em.ollamaAvailable.bool],
                              FALSE, hist.first # Null)
                /\ inflight' = [inflight EXCEPT ![c] = [pc |-> "done"]]
           ELSE /\ inflight' = [inflight EXCEPT ![c] = [pc |-> "listing", op |-> op,
                                                        later |-> hist.first # Null]]
                /\ UNCHANGED <<em, ret>>
    /\ UNCHANGED <<hist, vs, mClock, tokVars, sumVars, sessVars, pipeVars>>

\* The answer of ollama.list() comes and the call returns.
CompleteAvailability ==
    /\ \E c \in CallIds, list \in ListOutcomes :
        /\ inflight[c].pc = "listing"
        /\ em' = AfterCall(inflight[c].op, Listed(em, list))
        /\ ret' = ReturnedAvailability(c, inflight[c].op, Listed(em, list), TRUE,
                                       inflight[c].later)
        /\ hist' = IF hist.first # Null THEN hist
                   ELSE [first |-> [value |-> Listed(em, list).value,
                                    model |-> Listed(em, list).em.detectedModel]]
        /\ inflight' = [inflight EXCEPT ![c] = [pc |-> "done"]]
    /\ UNCHANGED <<vs, mClock, tokVars, sumVars, sessVars, pipeVars>>

AvailNext ==
    \/ StartAvailability
    \/ CompleteAvailability

SpecAvail == AvailInit /\ [][AvailNext]_vars

\* C17: a call of isOllamaAvailable or initEmbeddings that begins after the
\* first completion returns the availability and the detected model of that
\* completion, without contacting the service.
C17_CachedForever ==
    ret.op # "none" /\ ret.later =>
        /\ ret.value = hist.first.value
        /\ ret.model = hist.first.model
        /\ ~ret.contacted

-----------------------------------------------------------------------------
(* The memory store under additions and deletions, each followed by one    *)
(* read of the store.  hist.deleted holds the rows that deleteMemory has   *)
(* deleted.                                                                *)

StoreInit ==
    /\ vs = StoreAtLoad
    /\ em = EmbeddingsAtLoad
    /\ mClock = 0
    /\ ret = [op |-> "none"]
    /\ inflight = <<>>
    /\ hist = [deleted |-> {}]
    /\ TokIdle /\ SumIdle /\ SessIdle /\ PipeIdle

\* The rows of the given id.
RowsOfId(memory, id) == {memory[i] : i \in {j \in 1..Len(memory) : memory[j].id = id}}

DeleteMemory ==
    /\ ret.op = "none"
    /\ \E id \in 1..MaxRows :
        /\ vs' = deleteMemory(vs, id).st
        /\ hist' = IF deleteMemory(vs, id).value
                   THEN [deleted |-> hist.deleted \cup RowsOfId(vs.memory, id)]
                   ELSE hist
    /\ UNCHANGED <<em, mClock, ret, inflight, tokVars, sumVars, sessVars, pipeVars>>

SearchFTS ==
    /\ ret.op = "none"
    /\ \E query \in MemQueries, options \in SearchOptions :
        ret' = [op |-> "searchFTS", query |-> query, options |-> options, before |-> vs,
                out |-> Returned(searchFTS(vs.memory, query, options), <<>>)]
    /\ UNCHANGED <<vs, em, mClock, notMem>>

GetRecent ==
    /\ ret.op = "none"
    /\ \E options \in SearchOptions :
        ret' = [op |-> "getRecent", options |-> options, before |-> vs,
                out |-> Returned([i \in 1..Len(getRecent(vs.memory, options)) |->
                                     [item |-> getRecent(vs.memory, options)[i]]], <<>>)]
    /\ UNCHANGED <<vs, em, mClock, notMem>>

StoreNext ==
    \/ InitEmbeddings
    \/ AddMemory
    \/ DeleteMemory
    \/ Search
    \/ SearchVector
    \/ SearchFTS
    \/ GetRecent

SpecStore == StoreInit /\ [][StoreNext]_vars

\* Whether a returned item is the stored record row: the record of its id,
\* or, for an item without an id, a record of its type and content that is
\* not in the memory table.
Denotes(item, row, memory) ==
    IF Has(item, "id") THEN item.id = row.id
    ELSE /\ item.type = row.type
         /\ item.content = row.content
         /\ \A i \in 1..Len(memory) :
                memory[i].type # item.type \/ memory[i].content # item.content

\* C15: after deleteMemory(id) has returned true, no search, searchFTS,
\* searchVector or getRecent call returns the deleted record.
C15_DeletedNotReturned ==
    ret.op \in {"search", "searchFTS", "searchVector", "getRecent"} =>
        \A i \in 1..Len(ret.out.value) : \A row \in hist.deleted :
            ~Denotes(ret.out.value[i].item, row, vs.memory)

\* The row that the step has appended to the memory table.
Inserted == vs'.memory[Len(vs'.memory)]

\* C18: addMemory inserts exactly one record and returns its id, whether or
\* not the embedding call or the write to the vector table fails; the record
\* carries an embedding if and only if the semantic provider is active and the
\* embedding service has given a vector.
C18_OneRecordInserted ==
    [][mClock' # mClock =>
        /\ Len(vs'.memory) = Len(vs.memory) + 1
        /\ SubSeq(vs'.memory, 1, Len(vs.memory)) = vs.memory
        /\ \A i \in 1..Len(vs.memory) : vs.memory[i].id # Inserted.id
        /\ \A item \in MemItems : \A env \in AddEnvs(vs, em, item.content) :
            vs' = addMemory(vs, em, [type |-> item.type, content |-> item.content],
                            mClock', item.weight, env).st
            => /\ addMemory(vs, em, [type |-> item.type, content |-> item.content],
                            mClock', item.weight, env).value = Inserted.id
               /\ Inserted.content = item.content /\ Inserted.type = item.type
               /\ Inserted.embedding # Null
                  <=> /\ em.currentProvider = "ollama"
                      /\ env.svc.status = "ok" /\ env.svc.embeddings # <<>>]_vars

\* A record stored with its embedding while the write to the vector table
\* has failed: the connection is held and there is no vector table.
C18_Witness ==
    /\ em.currentProvider = "ollama"
    /\ vs.lanceDb # Null
    /\ vs.lanceTable = Null
    /\ \E i \in 1..Len(vs.memory) : vs.memory[i].embedding # Null

\* No two rows of the memory table have the same type and content.
DistinctRows(memory) ==
    \A i, j \in 1..Len(memory) :
        i # j => memory[i].type # memory[j].type \/ memory[i].content # memory[j].content

\* C14: retrieve returns no stored record twice, on the keyword path and on
\* the vector path: over a store whose records differ in type or content, no
\* two of the items returned have the same type and content.
C14_NoRecordTwice ==
    ret.op = "retrieve" /\ DistinctRows(vs.memory) =>
        \A i, j \in 1..Len(ret.value.items) :
            i # j => \/ ret.value.items[i].type # ret.value.items[j].type
                     \/ ret.value.items[i].content # ret.value.items[j].content

-----------------------------------------------------------------------------
(* PipelineMemory, the injection of variables: src/src/context/tokens.ts,  *)
(* lines 248-340.  steps, outputs, memory and initial are object literals, *)
(* so that a lookup by name also finds what Object.prototype gives every   *)
(* object; two of these inherited names are modelled.                      *)

CONSTRUCTOR_NAME == <<"c", "o", "n", "s", "t", "r", "u", "c", "t", "o", "r">>

TO_STRING_NAME == <<"t", "o", "S", "t", "r", "i", "n", "g">>

\* Names inherited from Object.prototype
OBJECT_PROTOTYPE == {CONSTRUCTOR_NAME, TO_STRING_NAME}

\* key in object
In(key, object) == key \in DOMAIN object \/ key \in OBJECT_PROTOTYPE

\* object[key] of an object whose own values are records: the own value, the
\* inherited function, or undefined.
Property(object, key) ==
    IF key \in DOMAIN object THEN object[key]
    ELSE IF key \in OBJECT_PROTOTYPE THEN [function |-> key]
    ELSE Undefined

\* String(f) of an inherited function f
NativeCode(f) ==
    <<"f", "u", "n", "c", "t", "i", "o", "n", " ">>
    \o (IF f.function = CONSTRUCTOR_NAME THEN <<"O", "b", "j", "e", "c", "t">>
        ELSE f.function)
    \o <<"(", ")", " ", "{", " ", "[", "n", "a", "t", "i", "v", "e", " ",
         "c", "o", "d", "e", "]", " ", "}">>

\* String(b) of a boolean b
BooleanString(b) == IF b THEN <<"t", "r", "u", "e">> ELSE <<"f", "a", "l", "s", "e">>

RECURSIVE JoinWith(_, _)
\* parts.join(sep)
JoinWith(parts, sep) ==
    IF parts = <<>> THEN <<>>
    ELSE IF Len(parts) = 1 THEN parts[1]
    ELSE parts[1] \o sep \o JoinWith(Tail(parts), sep)

\* '\n- '
KEY_POINT_SEPARATOR == <<"\n", "-", " ">>

\* Whether /\{\{([^}]+)\}\}/ matches text at the 0-based index i: two opening
\* braces, one character or more up to the first closing brace, which a second
\* closing brace follows.
PlaceholderAt(text, i) ==
    /\ MatchAt(text, <<"{", "{">>, i)
    /\ IndexOfFrom(text, <<"}">>, i + 2) >= i + 3
    /\ MatchAt(text, <<"}", "}">>, IndexOfFrom(text, <<"}">>, i + 2))

RECURSIVE Placeholders(_, _)
\* The matches of the global regular expression from index from on, left to
\* right and without overlap: index is where a match starts, end where the
\* text after it starts.
Placeholders(text, from) ==
    IF from + 5 > Len(text) THEN <<>>
    ELSE IF PlaceholderAt(text, from)
    THEN <<[index |-> from, end |-> IndexOfFrom(text, <<"}">>, from + 2) + 2]>>
         \o Placeholders(text, IndexOfFrom(text, <<"}">>, from + 2) + 2)
    ELSE Placeholders(text, from + 1)

\* trimmed.split('.', 2)[0]
StepIdOf(trimmed) == Slice(trimmed, 0, IndexOf(trimmed, <<".">>))

\* trimmed.split('.', 2)[1]
PropertyOf(trimmed) ==
    LET rest == SliceFrom(trimmed, IndexOf(trimmed, <<".">>) + 1)
    IN  IF IndexOf(rest, <<".">>) = -1 THEN rest ELSE Slice(rest, 0, IndexOf(rest, <<".">>))

\* The names the callback knows
CONTENT_PROPERTY == <<"c", "o", "n", "t", "e", "n", "t">>

RAW_PROPERTY == <<"r", "a", "w">>

SUMMARY_PROPERTY == <<"s", "u", "m", "m", "a", "r", "y">>

KEY_POINTS_PROPERTY == <<"k", "e", "y", "P", "o", "i", "n", "t", "s">>

TOKENS_PROPERTY == <<"t", "o", "k", "e", "n", "s">>

SUCCESS_PROPERTY == <<"s", "u", "c", "c", "e", "s", "s">>

ERROR_PROPERTY == <<"e", "r", "r", "o", "r">>

MODEL_PROPERTY == <<"m", "o", "d", "e", "l">>

DURATION_PROPERTY == <<"d", "u", "r", "a", "t", "i", "o", "n">>

PROMPT_NAME == <<"p", "r", "o", "m", "p", "t">>

\* The switch on the property of a step: step is ctx.steps[stepId], which is
\* not undefined, and mem is ctx.memory[stepId].
StepProperty(match, property, step, mem, config, agent) ==
    CASE property \in {CONTENT_PROPERTY, RAW_PROPERTY} ->
           IF /\ mem # Undefined
              /\ Has(mem, "tokens")
              /\ mem.tokens > config.maxInjectionTokens
              /\ config.preferSummaries
           THEN Returned(mem.summary, <<>>)
           ELSE Returned(truncateForAgent(ContentOf(step), agent, 0), <<>>)
      [] property = SUMMARY_PROPERTY ->
           IF mem # Undefined /\ Has(mem, "summary")
           THEN Returned(mem.summary, <<>>)
           ELSE Returned(truncateForAgent(ContentOf(step), agent, 0), <<>>)
      [] property = KEY_POINTS_PROPERTY ->
           IF mem = Undefined THEN Returned(<<>>, <<>>)
           ELSE IF Has(mem, "keyPoints")
           THEN Returned(JoinWith(mem.keyPoints, KEY_POINT_SEPARATOR), <<>>)
           ELSE Threw(<<>>)
      [] property = TOKENS_PROPERTY ->
           IF mem # Undefined /\ Has(mem, "tokens")
           THEN Returned(DecimalString(mem.tokens), <<>>)
           ELSE Returned(DecimalString(0), <<>>)
      [] property = SUCCESS_PROPERTY ->
           Returned(BooleanString(/\ Has(step, "status")
                                  /\ step.status = "completed"
                                  /\ (Has(step, "error") => step.error = <<>>)), <<>>)
      [] property = ERROR_PROPERTY ->
           Returned(IF Has(step, "error") THEN step.error ELSE <<>>, <<>>)
      [] property = MODEL_PROPERTY ->
           Returned(IF Has(step, "model") THEN step.model ELSE <<>>, <<>>)
      [] property = DURATION_PROPERTY ->
           Returned(DecimalString(IF Has(step, "duration") THEN step.duration ELSE 0), <<>>)
      [] OTHER -> Returned(match, <<>>)

\* Object.entries(ctx.memory).find(([_, mem]) => mem.raw === value) is found
MemEntryFound(memory, value) == \E id \in DOMAIN memory : memory[id].raw = value

\* Its summary.  Object.entries lists the names in the order of insertion; with
\* several entries of the same raw text the summaries are those of the same
\* text, and the model takes the one of the least timestamp.
MemEntrySummary(memory, value) ==
    LET found == {id \in DOMAIN memory : memory[id].raw = value}
    IN  memory[CHOOSE id \in found :
                   \A other \in found : memory[id].timestamp <= memory[other].timestamp].summary

\* The named output trimmed, which is in ctx.outputs.
NamedOutput(trimmed, ctx, agent) ==
    IF trimmed \notin DOMAIN ctx.outputs
    THEN Returned(NativeCode(Property(ctx.outputs, trimmed)), <<>>)
    ELSE IF /\ MemEntryFound(ctx.memory, ctx.outputs[trimmed])
            /\ estimateTokens(ctx.outputs[trimmed]) > ctx.config.maxInjectionTokens
            /\ ctx.config.preferSummaries
    THEN Returned(MemEntrySummary(ctx.memory, ctx.outputs[trimmed]), <<>>)
    ELSE Returned(truncateForAgent(ctx.outputs[trimmed], agent, 0), <<>>)

\* The initial variable trimmed, which is in ctx.initial.  A value is
\* [string |-> s], [number |-> n] or undefined; JSON.stringify gives undefined
\* for undefined and for a function, whose length truncateForAgent then reads.
InitialVariable(trimmed, ctx, agent) ==
    LET val == Property(ctx.initial, trimmed)
    IN  IF Has(val, "string") THEN Returned(truncateForAgent(val.string, agent, 0), <<>>)
        ELSE IF Has(val, "number")
        THEN Returned(truncateForAgent(JsonNumber(val.number), agent, 0), <<>>)
        ELSE Threw(<<>>)

\* The callback of template.replace: what is put in the place of match.
Substitution(match, ctx, agent) ==
    LET trimmed == Trim(Slice(match, 2, Len(match) - 2))
    IN  IF trimmed = PROMPT_NAME
        THEN Returned(truncateForAgent(ctx.prompt, agent, 0), <<>>)
        ELSE IF IndexOf(trimmed, <<".">>) # -1
        THEN IF Property(ctx.steps, StepIdOf(trimmed)) = Undefined
             THEN Returned(match, <<>>)
             ELSE StepProperty(match, PropertyOf(trimmed),
                               Property(ctx.steps, StepIdOf(trimmed)),
                               Property(ctx.memory, StepIdOf(trimmed)),
                               ctx.config, agent)
        ELSE IF In(trimmed, ctx.outputs) THEN NamedOutput(trimmed, ctx, agent)
        ELSE IF In(trimmed, ctx.initial) THEN InitialVariable(trimmed, ctx, agent)
        ELSE Returned(match, <<>>)

\* The text of the k-th match
MatchText(template, matches, k) == Slice(template, matches[k].index, matches[k].end)

\* The template with each match replaced, given the substitutions.
Replaced(template, matches, subs) ==
    Concat([k \in 1..Len(matches) |->
               Slice(template, IF k = 1 THEN 0 ELSE matches[k - 1].end, matches[k].index)
               \o subs[k].value])
    \o SliceFrom(template, IF matches = <<>> THEN 0 ELSE matches[Len(matches)].end)

\* targetAgent ?? ctx.config.targetAgent; targetAgent is [name |-> a] or undefined
AgentOf(ctx, targetAgent) ==
    IF targetAgent = Undefined THEN ctx.config.targetAgent ELSE targetAgent.name

\* The substitutions of the matches of template, in their order.
Substitutions(template, ctx, agent) ==
    [k \in 1..Len(Placeholders(template, 0)) |->
        Substitution(MatchText(template, Placeholders(template, 0), k), ctx, agent)]

\* injectVariablesTokenSafe(template, ctx, targetAgent): an exception of the
\* callback leaves replace, and the call.
injectVariablesTokenSafe(template, ctx, targetAgent) ==
    LET subs == Substitutions(template, ctx, AgentOf(ctx, targetAgent))
    IN  IF \E k \in DOMAIN subs : subs[k].threw THEN Threw(<<>>)
        ELSE Returned(Replaced(template, Placeholders(template, 0), subs), <<>>)

\* clearMemory(ctx, stepIds): stepIds is [ids |-> list] or undefined
clearMemory(ctx, stepIds) ==
    IF stepIds = Undefined THEN [ctx EXCEPT !.memory = <<>>]
    ELSE [ctx EXCEPT !.memory =
             [id \in DOMAIN ctx.memory \ Range(stepIds.ids) |-> ctx.memory[id]]]

-----------------------------------------------------------------------------
(* The objects of a pipeline.  A context is an object holding the          *)
(* addresses of its initial, steps, outputs, memory and config objects;    *)
(* { ...ctx, steps, outputs, memory } copies the addresses it does not     *)
(* replace.                                                                *)

\* An object literal with the given properties
ObjectOf(properties) == [properties |-> properties]

\* The context at address a, as the functions above read it.
HeapContext(h, a) ==
    [initial |-> h[h[a].initial].properties,
     steps |-> h[h[a].steps].properties,
     outputs |-> h[h[a].outputs].properties,
     prompt |-> h[a].prompt,
     memory |-> h[h[a].memory].properties,
     config |-> h[h[a].config].properties]

\* createMemoryContext(prompt, initial, config), initial being at initialAt:
\* the objects steps, outputs, memory and config, then the context.
CreatedOnHeap(h, prompt, initialAt, config) ==
    LET n == Len(h)
        value == createMemoryContext(prompt, h[initialAt].properties, config)
    IN  [heap |-> h \o <<ObjectOf(value.steps), ObjectOf(value.outputs),
                         ObjectOf(value.memory), ObjectOf(value.config),
                         [initial |-> initialAt, steps |-> n + 1, outputs |-> n + 2,
                          prompt |-> prompt, memory |-> n + 3, config |-> n + 4]>>,
         value |-> n + 5]

\* The mutant of StoredOnHeap that writes into the objects of the context it
\* is given, and returns that context.
StoredInPlace(h, a, value, storesOutput) ==
    [heap |-> [i \in 1..Len(h) |->
                  IF i = h[a].steps THEN ObjectOf(value.steps)
                  ELSE IF i = h[a].memory THEN ObjectOf(value.memory)
                  ELSE IF i = h[a].outputs /\ storesOutput THEN ObjectOf(value.outputs)
                  ELSE h[i]],
     value |-> a]

\* The end of addStepResultWithMemory, value being the context it computed:
\* steps and memory are new objects, outputs is one when the output is stored
\* and ctx.outputs itself otherwise, and the context is a new object.
StoredOnHeap(h, a, value, storesOutput) ==
    LET n == Len(h)
        outputs == IF storesOutput THEN <<ObjectOf(value.outputs)>> ELSE <<>>
        m == n + 1 + Len(outputs)
    IN  [heap |-> h \o <<ObjectOf(value.steps)>> \o outputs
                    \o <<ObjectOf(value.memory),
                         [h[a] EXCEPT !.steps = n + 1,
                                      !.outputs = IF storesOutput THEN n + 2 ELSE @,
                                      !.memory = m + 1]>>,
         value |-> m + 2]

\* clearMemory on the heap: memory is a new object, and so is the context.
ClearedOnHeap(h, a, value) ==
    [heap |-> h \o <<ObjectOf(value.memory), [h[a] EXCEPT !.memory = Len(h) + 1]>>,
     value |-> Len(h) + 2]

-----------------------------------------------------------------------------
(* The PipelineMemory specification: a context is created, steps are       *)
(* recorded while the summarizer is reachable or not, memory is cleared,   *)
(* and a template is injected.                                             *)

\* The largest number of objects allocated.
MaxObjects == 13

\* By how many tokens the long output exceeds the smallest budget.
OverBudget == 5

S1 == <<"s", "1">>

S2 == <<"s", "2">>

OUT == <<"o", "u", "t">>

StepIds == {S1, S2}

\* An output longer than the budget of the default agent, and of no break.
LongOutput ==
    LET length == (getAvailableTokens(DEFAULT_MEMORY_CONFIG.targetAgent, 0) + OverBudget)
                      * CHARS_PER_TOKEN
    IN  SubSeq(Repeat("x", length), 1, length)

\* The service while a step is recorded: not reachable, answering, or
\* reachable and failing.
EnvDown ==
    [enabled |-> TRUE, probe |-> "unreachable",
     svc |-> [status |-> "unreachable"], svcKey |-> [status |-> "unreachable"]]

EnvUp ==
    [enabled |-> TRUE, probe |-> "ok",
     svc |-> [status |-> "ok", response |-> <<"s", "u", "m">>],
     svcKey |-> [status |-> "ok", response |-> <<"-", " ", "k", "\n", "-", " ", "l">>]]

EnvFailing ==
    [enabled |-> TRUE, probe |-> "ok",
     svc |-> [status |-> "error"], svcKey |-> [status |-> "error"]]

\* The steps recorded: the result but its stepId, outputAs and the service.
PipeSteps ==
    {[result |-> [content |-> LongOutput, status |-> "completed", model |-> <<"m">>,
                  duration |-> 3],
      outputAs |-> [name |-> OUT], env |-> EnvDown],
     [result |-> [content |-> LongOutput, status |-> "completed"],
      outputAs |-> Undefined, env |-> EnvUp],
     [result |-> [content |-> LongOutput, status |-> "completed"],
      outputAs |-> [name |-> OUT], env |-> EnvFailing],
     [result |-> [content |-> <<"a", ".", " ", "b">>, status |-> "completed"],
      outputAs |-> [name |-> OUT], env |-> EnvDown],
     [result |-> [status |-> "failed", error |-> <<"e">>],
      outputAs |-> [name |-> OUT], env |-> EnvDown]}

\* The initial variables: a text, a number, one that is undefined, and one
\* of the name that the steps give their output.
PipeInitial ==
    (<<"v">> :> [string |-> <<"h", "i">>])
        @@ (<<"n">> :> [number |-> 7])
        @@ (<<"u">> :> Undefined)
        @@ (OUT :> [string |-> <<"i", "n", "i", "t">>])

PipeConfigs == {<<>>, [preferSummaries |-> FALSE]}

\* {{path}}
Braces(path) == <<"{", "{">> \o path \o <<"}", "}">>

\* step.property
Dotted(stepId, property) == stepId \o <<".">> \o property

NOPE == <<"n", "o", "p", "e">>

Templates ==
    {Braces(PROMPT_NAME),
     <<"a", " ">> \o Braces(<<" ">> \o Dotted(S1, CONTENT_PROPERTY) \o <<" ">>) \o <<" ", "b">>,
     Braces(Dotted(S1, RAW_PROPERTY)) \o Braces(Dotted(S2, SUMMARY_PROPERTY)),
     Braces(Dotted(S1, KEY_POINTS_PROPERTY)) \o Braces(Dotted(S1, TOKENS_PROPERTY)),
     Braces(Dotted(S1, SUCCESS_PROPERTY)) \o Braces(Dotted(S1, ERROR_PROPERTY))
         \o Braces(Dotted(S1, MODEL_PROPERTY)) \o Braces(Dotted(S1, DURATION_PROPERTY)),
     Braces(OUT),
     Braces(<<"v">>) \o Braces(<<"n">>),
     Braces(<<"u">>),
     Braces(NOPE) \o <<" ">> \o Braces(Dotted(<<"s", "9">>, RAW_PROPERTY))
         \o Braces(Dotted(S1, NOPE)) \o <<"{", "{", "}", "}", " ", "{", "a", "}", "}", "{", "{", "a", "}">>,
     Braces(TO_STRING_NAME),
     Braces(Dotted(CONSTRUCTOR_NAME, KEY_POINTS_PROPERTY)),
     Braces(Dotted(CONSTRUCTOR_NAME, CONTENT_PROPERTY))}

TargetAgents == {Undefined, [name |-> "codex"]}

PipeInit ==
    /\ \E config \in PipeConfigs :
        LET created == CreatedOnHeap(<<ObjectOf(PipeInitial)>>, <<"p">>, 1, config)
        IN  /\ heap = created.heap
            /\ held = created.value
            /\ pOut = [op |-> "createMemoryContext", value |-> created.value]
    /\ TokIdle /\ SumIdle /\ SessIdle /\ MemIdle /\ AsyncIdle

\* ctx = await addStepResultWithMemory(ctx, result, outputAs), for a step the
\* context does not hold.
PipeAddStep ==
    /\ pOut.op # "injectVariablesTokenSafe"
    /\ Len(heap) + 4 <= MaxObjects
    /\ \E id \in StepIds \ DOMAIN HeapContext(heap, held).steps, step \in PipeSteps :
        LET result == [stepId |-> id] @@ step.result
            ctx == HeapContext(heap, held)
            out == addStepResultWithMemory(ctx, result, step.outputAs,
                                           Cardinality(DOMAIN ctx.steps) + 1, step.env)
            stored == StoredOnHeap(heap, held, out.value,
                                   StoresOutput(result, step.outputAs))
        IN  /\ heap' = stored.heap
            /\ held' = stored.value
            /\ pOut' = [op |-> "addStepResultWithMemory", ctx |-> held,
                        value |-> stored.value]
    /\ UNCHANGED <<tokVars, sumVars, sessVars, memVars, asyncVars>>

\* ctx = clearMemory(ctx, stepIds)
PipeClearMemory ==
    /\ pOut.op # "injectVariablesTokenSafe"
    /\ Len(heap) + 2 <= MaxObjects
    /\ \E stepIds \in {Undefined, [ids |-> <<S1>>]} :
        LET cleared == ClearedOnHeap(heap, held,
                                     clearMemory(HeapContext(heap, held), stepIds))
        IN  /\ heap' = cleared.heap
            /\ held' = cleared.value
            /\ pOut' = [op |-> "clearMemory", ctx |-> held, value |-> cleared.value]
    /\ UNCHANGED <<tokVars, sumVars, sessVars, memVars, asyncVars>>

\* injectVariablesTokenSafe(template, ctx, targetAgent)
PipeInject ==
    /\ pOut.op # "injectVariablesTokenSafe"
    /\ \E template \in Templates, targetAgent \in TargetAgents :
        pOut' = [op |-> "injectVariablesTokenSafe", template |-> template,
                 targetAgent |-> targetAgent, ctx |-> held,
                 outcome |-> injectVariablesTokenSafe(template, HeapContext(heap, held),
                                                      targetAgent)]
    /\ UNCHANGED <<heap, held, tokVars, sumVars, sessVars, memVars, asyncVars>>

PipeNext == PipeAddStep \/ PipeClearMemory \/ PipeInject

SpecPipeline == PipeInit /\ [][PipeNext]_vars

-----------------------------------------------------------------------------
(* The claims on the injection of variables and on the contexts.           *)

\* The context, the agent and the matches of the injection pOut records.
InjectedContext == HeapContext(heap, pOut.ctx)

InjectedAgent == AgentOf(InjectedContext, pOut.targetAgent)

InjectedMatches == Placeholders(pOut.template, 0)

\* What is between the braces of the k-th match, trimmed.
InjectedName(k) ==
    LET match == MatchText(pOut.template, InjectedMatches, k)
    IN  Trim(Slice(match, 2, Len(match) - 2))

\* The k-th match names the content, raw or summary property of a recorded
\* step, a named output, or an initial variable.
NamesBudgetedValue(k) ==
    IF IndexOf(InjectedName(k), <<".">>) # -1
    THEN /\ StepIdOf(InjectedName(k)) \in DOMAIN InjectedContext.steps
         /\ PropertyOf(InjectedName(k))
                \in {CONTENT_PROPERTY, RAW_PROPERTY, SUMMARY_PROPERTY}
    ELSE /\ InjectedName(k) # PROMPT_NAME
         /\ InjectedName(k) \in DOMAIN InjectedContext.outputs
                                    \cup DOMAIN InjectedContext.initial

\* C11: every value injectVariablesTokenSafe puts in the place of a step's
\* content, raw or summary property, of a named output or of an initial
\* variable is of at most the available tokens of the target agent plus those
\* of the truncation marker, the summarizer having been reachable or not when
\* the step was recorded.
C11_SubstitutedWithinBudget ==
    pOut.op = "injectVariablesTokenSafe" =>
        \A k \in 1..Len(InjectedMatches) :
            LET sub == Substitutions(pOut.template, InjectedContext, InjectedAgent)[k]
            IN  NamesBudgetedValue(k) /\ ~sub.threw =>
                    estimateTokens(sub.value)
                        <= getAvailableTokens(InjectedAgent, 0)
                               + estimateTokens(TRUNCATED_SUFFIX)

KnownProperties ==
    {CONTENT_PROPERTY, RAW_PROPERTY, SUMMARY_PROPERTY, KEY_POINTS_PROPERTY,
     TOKENS_PROPERTY, SUCCESS_PROPERTY, ERROR_PROPERTY, MODEL_PROPERTY, DURATION_PROPERTY}

\* The k-th match cannot be resolved: its step id is not one of the context's
\* steps, its property is not a known one, or its name is neither prompt nor
\* one of the context's outputs or initial variables.
Unresolvable(k) ==
    IF IndexOf(InjectedName(k), <<".">>) # -1
    THEN \/ StepIdOf(InjectedName(k)) \notin DOMAIN InjectedContext.steps
         \/ PropertyOf(InjectedName(k)) \notin KnownProperties
    ELSE /\ InjectedName(k) # PROMPT_NAME
         /\ InjectedName(k) \notin DOMAIN InjectedContext.outputs
                                       \cup DOMAIN InjectedContext.initial

\* C12: injectVariablesTokenSafe never raises, and it leaves every placeholder
\* that cannot be resolved as it is written, with the text outside the
\* placeholders.
C12_UnresolvedLeftVerbatim ==
    pOut.op = "injectVariablesTokenSafe" =>
        /\ ~pOut.outcome.threw
        /\ \A k \in 1..Len(InjectedMatches) :
               Unresolvable(k) =>
                   Substitutions(pOut.template, InjectedContext, InjectedAgent)[k]
                       = Returned(MatchText(pOut.template, InjectedMatches, k), <<>>)

\* C19: addStepResultWithMemory and clearMemory leave the context they are given
\* as it was, its steps, outputs and memory holding the entries they held, and
\* return another context.
C19_ContextNotMutated ==
    [][heap' # heap =>
           /\ heap'[held] = heap[held]
           /\ HeapContext(heap', held) = HeapContext(heap, held)
           /\ held' # held
           /\ pOut'.ctx = held /\ pOut'.value = held']_vars

\* A context whose memory held entries was cleared, and still holds them.
C19_Witness ==
    /\ pOut.op = "clearMemory"
    /\ HeapContext(heap, pOut.ctx).memory # <<>>
    /\ HeapContext(heap, pOut.value).memory = <<>>
    /\ HeapContext(heap, pOut.value).outputs # <<>>

-----------------------------------------------------------------------------
(* Injector: src/src/memory/injector.ts.  The items carry no metadata.      *)

INJECTION_MAX_TOKENS == 2000

\* getTypeLabel
LABEL_CONVERSATION ==
    <<"P", "a", "s", "t", " ", "C", "o", "n", "v", "e", "r", "s", "a", "t",
      "i", "o", "n">>

LABEL_CODE ==
    <<"C", "o", "d", "e", " ", "R", "e", "f", "e", "r", "e", "n", "c", "e">>

LABEL_DECISION ==
    <<"P", "r", "e", "v", "i", "o", "u", "s", " ", "D", "e", "c", "i", "s",
      "i", "o", "n">>

LABEL_PATTERN ==
    <<"U", "s", "e", "r", " ", "P", "r", "e", "f", "e", "r", "e", "n", "c",
      "e">>

LABEL_CONTEXT ==
    <<"P", "r", "o", "j", "e", "c", "t", " ", "C", "o", "n", "t", "e", "x",
      "t">>

getTypeLabel(type) ==
    CASE type = "conversation" -> LABEL_CONVERSATION
      [] type = "code" -> LABEL_CODE
      [] type = "decision" -> LABEL_DECISION
      [] type = "pattern" -> LABEL_PATTERN
      [] type = "context" -> LABEL_CONTEXT

\* The entity escapeXML writes for a character.  The five replacements are
\* made one after the other, the ampersand first, and no entity holds a
\* character a later replacement looks for.
XmlEntity(c) ==
    CASE c = "&" -> <<"&", "a", "m", "p", ";">>
      [] c = "<" -> <<"&", "l", "t", ";">>
      [] c = ">" -> <<"&", "g", "t", ";">>
      [] c = "\"" -> <<"&", "q", "u", "o", "t", ";">>
      [] c = "'" -> <<"&", "a", "p", "o", "s", ";">>
      [] OTHER -> <<c>>

\* escapeXML(text)
escapeXML(text) == Concat([i \in 1..Len(text) |-> XmlEntity(text[i])])

\* lines.join('\n')
JoinLines(lines) == JoinWith(lines, <<"\n">>)

XML_OPEN ==
    <<"<", "m", "e", "m", "o", "r", "y", ">">>

XML_CLOSE ==
    <<"<", "/", "m", "e", "m", "o", "r", "y", ">">>

XML_ITEM_OPEN ==
    <<" ", " ", "<", "i", "t", "e", "m", " ", "t", "y", "p", "e", "=", "\"">>

XML_ITEM_OPENED ==
    <<"\"", ">">>

XML_ITEM_CLOSE ==
    <<" ", " ", "<", "/", "i", "t", "e", "m", ">">>

XML_CDATA_OPEN ==
    <<" ", " ", " ", " ", "<", "c", "o", "n", "t", "e", "n", "t", ">", "<",
      "!", "[", "C", "D", "A", "T", "A", "[">>

XML_CDATA_CLOSE ==
    <<"]", "]", ">", "<", "/", "c", "o", "n", "t", "e", "n", "t", ">">>

XML_CONTENT_OPEN ==
    <<" ", " ", " ", " ", "<", "c", "o", "n", "t", "e", "n", "t", ">">>

XML_CONTENT_CLOSE ==
    <<"<", "/", "c", "o", "n", "t", "e", "n", "t", ">">>

\* The lines formatAsXML pushes for one item.
XmlItemLines(item) ==
    <<XML_ITEM_OPEN \o TypeChars(item.type) \o XML_ITEM_OPENED,
      IF item.type = "code"
      THEN XML_CDATA_OPEN \o item.content \o XML_CDATA_CLOSE
      ELSE XML_CONTENT_OPEN \o escapeXML(item.content) \o XML_CONTENT_CLOSE,
      XML_ITEM_CLOSE>>

\* formatAsXML(items)
formatAsXML(items) ==
    IF items = <<>> THEN <<>>
    ELSE JoinLines(<<XML_OPEN>>
                   \o Concat([i \in 1..Len(items) |-> XmlItemLines(items[i])])
                   \o <<XML_CLOSE>>)

MARKDOWN_TITLE ==
    <<"#", "#", " ", "R", "e", "l", "e", "v", "a", "n", "t", " ", "C", "o",
      "n", "t", "e", "x", "t", "\n">>

MARKDOWN_HEADING ==
    <<"#", "#", "#", " ">>

MARKDOWN_FENCE ==
    <<BACKTICK, BACKTICK, BACKTICK>>

\* The types of items in the order of their first item: the keys of byType.
RECURSIVE TypesInOrder(_, _)
TypesInOrder(items, seen) ==
    IF items = <<>> THEN <<>>
    ELSE IF Head(items).type \in seen THEN TypesInOrder(Tail(items), seen)
    ELSE <<Head(items).type>> \o TypesInOrder(Tail(items), seen \cup {Head(items).type})

\* The lines formatAsMarkdown pushes for one item of a group.
MarkdownItemLines(item) ==
    IF item.type = "code"
    THEN <<MARKDOWN_FENCE, item.content, MARKDOWN_FENCE \o <<"\n">> >>
    ELSE <<item.content, <<>> >>

\* The lines of the group of a type: its heading, then its items.
MarkdownGroupLines(type, items) ==
    LET typeItems == SelectSeq(items, LAMBDA item : item.type = type)
    IN  <<MARKDOWN_HEADING \o getTypeLabel(type) \o <<"\n">> >>
        \o Concat([i \in 1..Len(typeItems) |-> MarkdownItemLines(typeItems[i])])

\* formatAsMarkdown(items)
formatAsMarkdown(items) ==
    IF items = <<>> THEN <<>>
    ELSE JoinLines(<<MARKDOWN_TITLE>>
                   \o Concat([i \in 1..Len(TypesInOrder(items, {})) |->
                                 MarkdownGroupLines(TypesInOrder(items, {})[i], items)]))

\* buildInjection from the context on.
InjectionOf(context, format) ==
    [st |-> context.st,
     value |-> [content |-> IF format = "xml" THEN formatAsXML(context.value.items)
                            ELSE formatAsMarkdown(context.value.items),
                tokens |-> context.value.totalTokens,
                itemCount |-> Len(context.value.items),
                breakdown |-> context.value.breakdown],
     calls |-> context.calls]

\* buildInjection(query, options)
buildInjection(st, e, query, options, env) ==
    LET o == options @@ [format |-> "markdown", maxTokens |-> INJECTION_MAX_TOKENS,
                         includeConversation |-> TRUE, includeCode |-> TRUE,
                         includeDecisions |-> TRUE, includePatterns |-> TRUE]
    IN  InjectionOf(buildContext(st, e, query,
                                 [maxTokens |-> o.maxTokens,
                                  includeConversation |-> o.includeConversation,
                                  includeCode |-> o.includeCode,
                                  includeDecisions |-> o.includeDecisions,
                                  includePatterns |-> o.includePatterns],
                                 env),
                    o.format)

-----------------------------------------------------------------------------
(* The Injector specification: the embeddings are initialised, items are   *)
(* added, and one injection is built.                                      *)

\* The options of buildInjection.
InjectionOptions ==
    {f @@ b : f \in {<<>>, [format |-> "xml"], [format |-> "markdown", includeCode |-> FALSE]},
              b \in Budgets}

BuildInjection ==
    /\ ret.op = "none"
    /\ \E query \in MemQueries, options \in InjectionOptions :
        \E env \in ReadEnvs(vs, em, query) :
            Retrieves("buildInjection", query, options, env, vs,
                      buildInjection(vs, em, query, options, env))
    /\ UNCHANGED <<em, mClock, notMem>>

InjectorNext == InitEmbeddings \/ AddMemory \/ BuildInjection

SpecInjector == MemInit /\ [][InjectorNext]_vars

\* The maxTokens the injection asked for: the one given, or the default.
InjectionMaxTokens == (ret.options @@ [maxTokens |-> INJECTION_MAX_TOKENS]).maxTokens

\* C13: the content buildInjection returns is of at most maxTokens estimated
\* tokens, for every store, query, format and maxTokens that is a count.
C13_ContentWithinMaxTokens ==
    ret.op = "buildInjection" /\ InjectionMaxTokens >= 0 =>
        retrieverEstimateTokens(ret.value.content) <= InjectionMaxTokens

-----------------------------------------------------------------------------
(* Overlapping addMessage calls: two calls are made with the same session  *)
(* object before either has returned.  A call runs without interruption up *)
(* to await compressSession(...), which it reaches only over the ceiling,  *)
(* and from there to its end once the compaction is done.                  *)

OverlapCalls == 1..2

\* What each call appends.
OverlapContents(c) ==
    IF c = 1 THEN {<<"a">>, Repeat("a", MaxContent)} ELSE {<<"b">>, Repeat("b", MaxContent)}

OverlapConfigs ==
    {<<>>, [maxTokens |-> SmallCeiling], [maxTokens |-> SmallCeiling, keepRecentMessages |-> 1],
     [maxTokens |-> SmallCeiling, keepRecentMessages |-> 0, autoSave |-> FALSE]}

\* The session the calls are given: a stored session of one message.
OverlapSnapshot ==
    addMessage(createSession(<<>>, "claude", 1, "r").fs,
               createSession(<<>>, "claude", 1, "r").value,
               "user", <<"h", "i">>, <<>>, 1, [enabled |-> FALSE])

OverlapInit ==
    /\ files = OverlapSnapshot.fs
    /\ sess = OverlapSnapshot.value
    /\ sessConfig \in [OverlapCalls -> OverlapConfigs]
    /\ clock = 1
    /\ last = [op |-> "none"]
    /\ inflight = [c \in OverlapCalls |-> [pc |-> "new"]]
    /\ hist = <<>>
    /\ TokIdle /\ SumIdle /\ MemIdle /\ PipeIdle

\* The end of a call: the file is written when autoSave is set, and the
\* session is returned.  hist lists the writes in their order.
OverlapReturn(c, start, content, out) ==
    /\ files' = out.fs
    /\ inflight' = [inflight EXCEPT ![c] =
                       [pc |-> "done", start |-> start, content |-> content,
                        threw |-> out.threw,
                        value |-> IF out.threw THEN Null ELSE out.value]]
    /\ hist' = IF ~out.threw /\ SessionConfigOf(sessConfig[c]).autoSave
               THEN Append(hist, [call |-> c, value |-> out.value])
               ELSE hist

\* addMessage(session, role, content, config) up to its first await, which is
\* its end when the total stays under the ceiling.
StartAddMessage ==
    \E c \in OverlapCalls :
        /\ inflight[c].pc = "new"
        /\ \E role \in SessRoles, content \in OverlapContents(c) :
            LET cfg == SessionConfigOf(sessConfig[c])
                appended == WithMessage(sess, role, content, clock + 1)
            IN  IF appended.totalTokens > cfg.maxTokens
                THEN /\ inflight' = [inflight EXCEPT ![c] =
                                        [pc |-> "compressSession", start |-> clock + 1,
                                         content |-> content, appended |-> appended]]
                     /\ UNCHANGED <<files, hist>>
                ELSE OverlapReturn(c, clock + 1, content,
                                   SaveAndReturn(files, cfg, NotCompressed(appended), FALSE))
        /\ clock' = clock + 1
        /\ last' = [op |-> "addMessage", call |-> c]
        /\ UNCHANGED <<sess, sessConfig, tokVars, sumVars, memVars, pipeVars>>

\* addMessage from the return of compressSession to its end.
FinishAddMessage ==
    \E c \in OverlapCalls :
        /\ inflight[c].pc = "compressSession"
        /\ \E env \in SessEnvs :
            OverlapReturn(c, inflight[c].start, inflight[c].content,
                          SaveAndReturn(files, SessionConfigOf(sessConfig[c]),
                                        compressSession(inflight[c].appended,
                                                        SessionConfigOf(sessConfig[c]),
                                                        clock + 1, env),
                                        TRUE))
        /\ clock' = clock + 1
        /\ last' = [op |-> "addMessage", call |-> c]
        /\ UNCHANGED <<sess, sessConfig, tokVars, sumVars, memVars, pipeVars>>

OverlapNext == StartAddMessage \/ FinishAddMessage

SpecOverlap == OverlapInit /\ [][OverlapNext]_vars

\* The contents of the messages of a session.
MessageContents(session) == {session.messages[i].content : i \in 1..Len(session.messages)}

\* The last write of the session's file.
LastSaved == hist[Len(hist)]

\* C16: two addMessage calls given the same session object, the second made
\* before the first has returned, both return without an exception; the file
\* then holds the session returned by the call that wrote last, and not the
\* message of the other call.
C16_LastSaveWins ==
    (\A c \in OverlapCalls : inflight[c].pc = "done") =>
        /\ \A c \in OverlapCalls : ~inflight[c].threw
        /\ hist # <<>> =>
               /\ loadSession(files, sess.id) = LastSaved.value
               /\ LastSaved.value = inflight[LastSaved.call].value
               /\ \A c \in OverlapCalls \ {LastSaved.call} :
                      inflight[c].content \notin MessageContents(loadSession(files, sess.id))

\* The call made first compacts and writes after the other call has written:
\* the file holds its session, of which the other's message is not part.
C16_Witness ==
    /\ \A c \in OverlapCalls : inflight[c].pc = "done"
    /\ Len(hist) = 2
    /\ LastSaved.call = 1
    /\ hist[1].call = 2
    /\ inflight[1].start < inflight[2].start
    /\ hist[1].value # LastSaved.value
    /\ loadSession(files, sess.id).summary # <<>>

-----------------------------------------------------------------------------
(* SessionStore, the listing of the stored sessions:                       *)
(* src/src/memory/sessions.ts, lines 174-225 and 359-381.  agent is        *)
(* [name |-> a], or Undefined when it is not given.                        *)

PREVIEW_LENGTH == 100

\* '(empty)'
EMPTY_PREVIEW == <<"(", "e", "m", "p", "t", "y", ")">>

\* readdirSync(dir) of the session files: the names in their order, which is
\* that of the time in the id for ids of one agent.
RECURSIVE DirectoryOrder(_)
DirectoryOrder(ids) ==
    IF ids = {} THEN <<>>
    ELSE LET first == CHOOSE id \in ids : \A other \in ids : id[2] <= other[2]
         IN  <<first>> \o DirectoryOrder(ids \ {first})

\* The first message of role user, or Undefined
FirstUserMessage(messages) ==
    IF \E i \in 1..Len(messages) : messages[i].role = "user"
    THEN messages[CHOOSE i \in 1..Len(messages) :
                      /\ messages[i].role = "user"
                      /\ \A j \in 1..(i - 1) : messages[j].role # "user"]
    ELSE Undefined

\* firstUserMsg?.content.slice(0, 100) || session.summary.slice(0, 100) || '(empty)'
PreviewOf(session) ==
    LET firstUserMsg == FirstUserMessage(session.messages)
    IN  IF firstUserMsg # Undefined /\ firstUserMsg.content # <<>>
        THEN Slice(firstUserMsg.content, 0, PREVIEW_LENGTH)
        ELSE IF session.summary # <<>> THEN Slice(session.summary, 0, PREVIEW_LENGTH)
        ELSE EMPTY_PREVIEW

\* The SessionMeta pushed for a session
SessionMetaOf(session) ==
    [id |-> session.id,
     agent |-> session.agent,
     messageCount |-> session.messageCount,
     totalTokens |-> session.totalTokens,
     createdAt |-> session.createdAt,
     updatedAt |-> session.updatedAt,
     preview |-> IF Len(PreviewOf(session)) = PREVIEW_LENGTH
                 THEN PreviewOf(session) \o ELLIPSIS ELSE PreviewOf(session)]

\* What the loop of listSessions does with the value loadSession returned for
\* a file: "skip" (continue), "push", or "throw" when it reads a property of
\* undefined, which a value without messages brings about.
Listing(session, agent) ==
    IF session = Null THEN "skip"
    ELSE IF agent # Undefined
            /\ agent.name # ""
            /\ (~Has(session, "agent") \/ session.agent # agent.name) THEN "skip"
    ELSE IF ~Has(session, "messages") THEN "throw"
    ELSE "push"

\* listSessions(agent): the exception of the loop is caught, and [] returned.
listSessions(fs, agent) ==
    LET names == DirectoryOrder(DOMAIN fs)
        pushed == SelectSeq(names, LAMBDA id : Listing(loadSession(fs, id), agent) = "push")
        sessions == [i \in 1..Len(pushed) |-> SessionMetaOf(loadSession(fs, pushed[i]))]
    IN  IF \E id \in DOMAIN fs : Listing(loadSession(fs, id), agent) = "throw" THEN <<>>
        ELSE SortDescBy(sessions, [i \in 1..Len(sessions) |-> sessions[i].updatedAt])

\* c.toLowerCase(), for the letters of the texts checked
LowerCaseChar(c) ==
    CASE c = "C" -> "c" [] c = "A" -> "a" [] c = "T" -> "t" [] c = "H" -> "h" [] OTHER -> c

\* s.toLowerCase()
ToLowerCase(s) == [i \in 1..Len(s) |-> LowerCaseChar(s[i])]

\* The filter of searchSessions on the session loaded for a meta
MatchesKeyword(session, keyword) ==
    \/ \E i \in 1..Len(session.messages) :
           Contains(ToLowerCase(session.messages[i].content), ToLowerCase(keyword))
    \/ Contains(ToLowerCase(session.summary), ToLowerCase(keyword))

\* searchSessions(keyword, agent)
searchSessions(fs, keyword, agent) ==
    SelectSeq(listSessions(fs, agent), LAMBDA meta :
        /\ loadSession(fs, meta.id) # Null
        /\ MatchesKeyword(loadSession(fs, meta.id), keyword))

\* getLatestSession(agent): the session returned, and the directory afterwards
getLatestSession(fs, agent, now, random) ==
    IF /\ listSessions(fs, [name |-> agent]) # <<>>
       /\ loadSession(fs, listSessions(fs, [name |-> agent])[1].id) # Null
    THEN [fs |-> fs, value |-> loadSession(fs, listSessions(fs, [name |-> agent])[1].id)]
    ELSE createSession(fs, agent, now, random)

-----------------------------------------------------------------------------
(* The listing specification: the directory holds files of sessions,       *)
(* files that JSON.parse rejects and files of other JSON, as a crash, a    *)
(* full disk or another program leave them; one read is made.              *)

\* The number of files of the directory.
MaxFiles == 3

ListAgents == {"claude", "codex"}

\* The id of the k-th file, and its agent.
FileAgent(k) == IF k % 2 = 1 THEN "claude" ELSE "codex"

FileId(k) == generateSessionId(FileAgent(k), k, "r")

\* The sessions a file can hold: a new one, one with messages, one whose
\* first user message is exactly as long as a preview, one whose message is
\* longer, and one of a long summary and no user message.
StoredSessions(k) ==
    LET created == createSession(<<>>, FileAgent(k), k, "r").value
    IN  {created,
         WithMessage(WithMessage(created, "assistant", <<"o", "k">>, k),
                     "user", <<"H", "i", " ", "c", "a", "t">>, k + MaxFiles),
         WithMessage(created, "user", Repeat("x", PREVIEW_LENGTH), k),
         WithMessage(created, "user", Repeat("y", PREVIEW_LENGTH + 1), k),
         [WithMessage(created, "assistant", <<"o", "k">>, k)
             EXCEPT !.summary = Repeat("s", PREVIEW_LENGTH + 1)]}

\* What a file can hold.
FileContents(k) ==
    {JsonStringify(session) : session \in StoredSessions(k)}
        \cup {[kind |-> "garbage"], [kind |-> "json", doc |-> OTHER_DOCUMENT]}

ListKeywords == {<<"C", "A", "T">>, <<"x">>, <<"z">>}

OptionalAgents == {Undefined} \cup {[name |-> a] : a \in ListAgents}

ListInit ==
    /\ \E present \in SUBSET (1..MaxFiles) :
         \E content \in [present -> UNION {FileContents(k) : k \in 1..MaxFiles}] :
            /\ \A k \in present : content[k] \in FileContents(k)
            /\ files = [id \in {FileId(k) : k \in present} |->
                           content[CHOOSE k \in present : FileId(k) = id]]
    /\ sess = Null
    /\ sessConfig = <<>>
    /\ clock = MaxFiles + MaxFiles
    /\ last = [op |-> "none"]
    /\ TokIdle /\ SumIdle /\ MemIdle /\ AsyncIdle /\ PipeIdle

ListLoadSession ==
    /\ last.op = "none"
    /\ \E k \in 1..MaxFiles :
        last' = [op |-> "loadSession", id |-> FileId(k), value |-> loadSession(files, FileId(k))]
    /\ UNCHANGED <<files, sess, sessConfig, clock, notSess>>

ListSessions ==
    /\ last.op = "none"
    /\ \E agent \in OptionalAgents :
        last' = [op |-> "listSessions", agent |-> agent, value |-> listSessions(files, agent)]
    /\ UNCHANGED <<files, sess, sessConfig, clock, notSess>>

SearchSessions ==
    /\ last.op = "none"
    /\ \E keyword \in ListKeywords, agent \in OptionalAgents :
        last' = [op |-> "searchSessions", keyword |-> keyword, agent |-> agent,
                 value |-> searchSessions(files, keyword, agent)]
    /\ UNCHANGED <<files, sess, sessConfig, clock, notSess>>

GetLatestSession ==
    /\ last.op = "none"
    /\ \E agent \in ListAgents :
        /\ files' = getLatestSession(files, agent, clock + 1, "r").fs
        /\ sess' = getLatestSession(files, agent, clock + 1, "r").value
        /\ last' = [op |-> "getLatestSession", agent |-> [name |-> agent],
                    filesBefore |-> files,
                    value |-> getLatestSession(files, agent, clock + 1, "r").value]
    /\ clock' = clock + 1
    /\ UNCHANGED <<sessConfig, notSess>>

ListNext == ListLoadSession \/ ListSessions \/ SearchSessions \/ GetLatestSession

SpecListing == ListInit /\ [][ListNext]_vars

\* The files that hold a session, among those of the directory fs.
ValidIds(fs) ==
    {id \in DOMAIN fs : fs[id].kind = "json" /\ fs[id].doc # OTHER_DOCUMENT}

\* The session of a valid file.
StoredSession(fs, id) == ParseSession(fs[id].doc)

\* The valid files of the agent asked for.
ValidIdsOf(fs, agent) ==
    {id \in ValidIds(fs) : agent # Undefined => StoredSession(fs, id).agent = agent.name}

\* The ids of a list of SessionMeta
MetaIds(metas) == {metas[i].id : i \in 1..Len(metas)}

\* C20: a file that is not the JSON text of a session is as a file that is not
\* there: loadSession returns null for it, and listSessions, searchSessions
\* and getLatestSession pass over it and return the sessions of the other
\* files.
C20_MalformedIsAbsent ==
    /\ last.op = "loadSession" =>
           (last.id \notin ValidIds(files) => last.value = Null)
    /\ last.op = "listSessions" =>
           /\ MetaIds(last.value) = ValidIdsOf(files, last.agent)
           /\ Len(last.value) = Cardinality(ValidIdsOf(files, last.agent))
    /\ last.op = "searchSessions" =>
           MetaIds(last.value) =
               {id \in ValidIdsOf(files, last.agent) :
                   MatchesKeyword(StoredSession(files, id), last.keyword)}
    /\ last.op = "getLatestSession" =>
           IF ValidIdsOf(last.filesBefore, last.agent) = {}
           THEN /\ last.value.id \notin DOMAIN last.filesBefore
                /\ last.value.messages = <<>>
           ELSE /\ last.value.id \in ValidIdsOf(last.filesBefore, last.agent)
                /\ last.value = StoredSession(last.filesBefore, last.value.id)
                /\ \A id \in ValidIdsOf(last.filesBefore, last.agent) :
                       StoredSession(last.filesBefore, id).updatedAt <= last.value.updatedAt

-----------------------------------------------------------------------------
(* TokenBudget, splitIntoChunks: src/src/context/tokens.ts                 *)

RECURSIVE SplitRemaining(_, _, _)
\* The while loop of splitIntoChunks: remaining is what is left of the text,
\* chunks the chunks pushed so far.  The comparisons with chunkChars * 0.5
\* are made in halves.
SplitRemaining(remaining, chunkChars, chunks) ==
    IF Len(remaining) = 0 THEN chunks
    ELSE IF Len(remaining) <= chunkChars THEN Append(chunks, remaining)
    ELSE
        LET paragraphBreak == LastIndexOfFrom(remaining, PARAGRAPH_BREAK, chunkChars)
            sentenceBreak == LastIndexOfFrom(remaining, SENTENCE_BREAK, chunkChars)
            breakPoint == IF paragraphBreak * 2 > chunkChars THEN paragraphBreak + 2
                          ELSE IF sentenceBreak * 2 > chunkChars THEN sentenceBreak + 2
                          ELSE chunkChars
        IN  SplitRemaining(Trim(SliceFrom(remaining, breakPoint)), chunkChars,
                           Append(chunks, Trim(Slice(remaining, 0, breakPoint))))

splitIntoChunks(text, agent) ==
    LET chunkChars == getTokenConfig(agent).chunkSize * CHARS_PER_TOKEN
    IN  IF Len(text) <= chunkChars THEN <<text>>
        ELSE SplitRemaining(text, chunkChars, <<>>)

-----------------------------------------------------------------------------
(* The specification of splitIntoChunks: a text about one chunk window     *)
(* long, with a few arbitrary characters where the window ends.            *)

\* The most characters by which the filler stops short of the window's end.
ChunkPad == 3

\* The most arbitrary characters that follow the filler.
ChunkMiddle == 2

\* The most filler characters that end the text.
ChunkRest == 2

\* n filler characters
Filler(n) == IF n = 0 THEN <<>> ELSE SubSeq(Repeat("a", n), 1, n)

ChunkAgents == {"ollama", "codex"}

\* The filler stops at most ChunkPad characters before the end of the window,
\* or three quarters into it.
ChunkFronts(agent) ==
    LET chunkChars == getTokenConfig(agent).chunkSize * CHARS_PER_TOKEN
    IN  {chunkChars - p : p \in 0..ChunkPad} \cup {(chunkChars * 3) \div 4}

ChunkTexts(agent) ==
    {Filler(front) \o middle \o Filler(rest) :
        front \in ChunkFronts(agent),
        middle \in StringsUpTo(TokAlphabet, ChunkMiddle),
        rest \in {0, ChunkRest, getTokenConfig(agent).chunkSize}}

ChunkInit ==
    /\ tAgent \in ChunkAgents
    /\ tText \in ChunkTexts(tAgent)
    /\ tUsed = 0
    /\ tOut = <<>>
    /\ tPc = "start"
    /\ IdleButTok

SplitIntoChunks ==
    /\ tPc = "start"
    /\ tOut' = splitIntoChunks(tText, tAgent)
    /\ tPc' = "split"
    /\ UNCHANGED <<tText, tAgent, tUsed, notTok>>

ChunkNext == SplitIntoChunks

SpecChunks == ChunkInit /\ [][ChunkNext]_vars

\* C21: every chunk returned by splitIntoChunks is at most chunkSize * 4
\* characters long, so its estimate is at most the target's chunkSize tokens.
C21_ChunkWithinBudget ==
    tPc = "split" =>
        \A k \in DOMAIN tOut :
            /\ Len(tOut[k]) <= getTokenConfig(tAgent).chunkSize * CHARS_PER_TOKEN
            /\ estimateTokens(tOut[k]) <= getTokenConfig(tAgent).chunkSize

-----------------------------------------------------------------------------
(* Summarizer: a text that is short enough already                         *)

\* The text of the call is within the maxLength in force.
ShortEnough ==
    /\ sPc = "summarize"
    /\ estimateTokens(sText) <= EffectiveMaxLength(sOpts)

\* C22: for every text whose estimate is at most maxLength, summarize returns
\* the text unchanged with originalTokens = summaryTokens and compressionRatio
\* 1, sends nothing to the summarization service, and summarize applied to
\* the text it returned returns the same again, whatever the service would
\* have answered.
C22_ShortTextUnchanged ==
    ShortEnough =>
        /\ ~sOut.threw
        /\ sOut.calls = <<>>
        /\ sOut.value.summary = sText
        /\ sOut.value.originalTokens = sOut.value.summaryTokens
        /\ sOut.value.compressionRatio = Ratio(1, 1)
        /\ \A svc \in SvcOutcomes : summarize(sOut.value.summary, sOpts, svc) = sOut

\* A text with a code block, exactly as long as the maxLength given, was
\* returned as it is while the service was ready to answer something else.
C22_Witness ==
    /\ ShortEnough
    /\ Has(sOpts, "maxLength")
    /\ estimateTokens(sText) = sOpts.maxLength
    /\ Contains(sText, FENCE \o FENCE)
    /\ sSvc.status = "ok"
    /\ sSvc.response # sText
    /\ sOut.value.summary = sText

-----------------------------------------------------------------------------
(* SessionStore: a session just created                                    *)

\* C23: createSession returns a session with no messages, an empty summary
\* and totalTokens, summaryTokens and messageCount equal to 0, and the
\* session is in its file when createSession returns: loadSession of its id
\* yields an equal session.
C23_CreatedEmptyAndPersisted ==
    last.op = "createSession" =>
        /\ sess.messages = <<>>
        /\ sess.summary = <<>>
        /\ sess.totalTokens = 0
        /\ sess.summaryTokens = 0
        /\ sess.messageCount = 0
        /\ loadSession(files, sess.id) = sess

\* A second session was created after the first one was deleted, and its
\* file holds it.
C23_Witness ==
    /\ last.op = "createSession"
    /\ sess.createdAt > 1
    /\ DOMAIN files = {sess.id}
    /\ loadSession(files, sess.id) = sess

-----------------------------------------------------------------------------
(* The two estimators: estimateTokens of src/src/context/tokens.ts and the *)
(* private estimateTokens of src/src/memory/retriever.ts, applied to the   *)
(* same text.                                                              *)

\* The longest text of arbitrary characters.
EstimateChars == 5

\* The longest text of filler.
EstimateFiller == 40

EstimateTexts ==
    StringsUpTo({"a", " "}, EstimateChars) \cup {Filler(n) : n \in 0..EstimateFiller}

EstimateInit ==
    /\ tText \in EstimateTexts
    /\ tAgent = "none"
    /\ tUsed = 0
    /\ tOut = <<>>
    /\ tPc = "start"
    /\ IdleButTok

EstimateTokens ==
    /\ tPc = "start"
    /\ tOut' = [tokens |-> estimateTokens(tText),
                retriever |-> retrieverEstimateTokens(tText)]
    /\ tPc' = "estimated"
    /\ UNCHANGED <<tText, tAgent, tUsed, notTok>>

EstimateNext == EstimateTokens

SpecEstimate == EstimateInit /\ [][EstimateNext]_vars

\* C24: estimateTokens(text) is the ceiling of length(text) / 4, the least
\* whole number of tokens whose four characters each cover the text, it is 0
\* for the empty text, and the retriever's estimator returns the same value.
C24_EstimateIsCeiling ==
    tPc = "estimated" =>
        /\ tOut.tokens * 4 >= Len(tText)
        /\ (tOut.tokens - 1) * 4 < Len(tText)
        /\ (tText = <<>> => tOut.tokens = 0)
        /\ tOut.retriever = tOut.tokens

\* A text whose length is not a multiple of four was rounded up by both.
C24_Witness ==
    /\ tPc = "estimated"
    /\ Len(tText) = 9
    /\ tOut.tokens = 3
    /\ tOut.retriever = 3

-----------------------------------------------------------------------------
(* SessionStore: the token counters of a session                           *)

\* C25: in every session reached from createSession by addMessage (compacting
\* or not, the summarizer reachable or not) and clearSessionHistory,
\* totalTokens is summaryTokens plus the token counts of the verbatim
\* messages; so it is in the session's file.
C25_TotalIsSummaryPlusMessages ==
    /\ sess # Null =>
           sess.totalTokens = sess.summaryTokens + SumTokens(sess.messages)
    /\ \A id \in DOMAIN files :
           LET stored == loadSession(files, id)
           IN  stored.totalTokens = stored.summaryTokens + SumTokens(stored.messages)

\* An append compacted the session while the summarizer was not reachable,
\* and the session holds a summary and a verbatim message.
C25_Witness ==
    /\ last.op = "addMessage"
    /\ ~last.out.threw
    /\ last.out.folded
    /\ last.out.calls = <<>>
    /\ sess.summaryTokens > 0
    /\ sess.messages # <<>>
    /\ sess.totalTokens > sess.summaryTokens

-----------------------------------------------------------------------------
(* SessionStore: the summary a compaction makes without the summarizer     *)

\* The last addMessage folded messages while isSummarizerAvailable() was false.
FoldedWithoutSummarizer ==
    /\ last.op = "addMessage"
    /\ ~last.out.threw
    /\ last.out.folded
    /\ ~isSummarizerAvailable(last.env.enabled, last.env.probe).value

\* The messages the last addMessage handed to compressSession.
LastAppended == WithMessage(last.before, last.role, last.content, clock).messages

\* The text the last compaction folded.
LastFoldInput ==
    FoldInput(last.before.summary,
              Slice(LastAppended, 0,
                    SplitIndex(Len(LastAppended), LastConfig.keepRecentMessages)))

\* targetSummaryTokens of the last compaction, from the messages it kept.
LastTarget ==
    TargetSummaryTokens(LastConfig.maxTokens, SumTokens(last.out.value.messages))

\* C26: when the summarization service is unavailable, a compaction that
\* folds at least one message produces a summary that is the first
\* targetSummaryTokens * 4 characters of the fold input (none when the target
\* is not positive), so its estimate is at most max(0, targetSummaryTokens),
\* also when the kept messages alone reach or exceed maxTokens.
C26_TruncatedToTarget ==
    FoldedWithoutSummarizer =>
        /\ last.out.value.summary = FirstChars(LastFoldInput, Max(0, LastTarget * 4))
        /\ estimateTokens(last.out.value.summary) <= Max(0, LastTarget)
        /\ last.out.value.summaryTokens <= Max(0, LastTarget)

\* C26 for a target that is not negative.
C26_ForTargetNotNegative ==
    (FoldedWithoutSummarizer /\ LastTarget >= 0) => C26_TruncatedToTarget

-----------------------------------------------------------------------------
(* SessionStore: the verbatim messages of a session                        *)

\* Whether a is the end of b.
IsSuffix(a, b) ==
    /\ Len(a) <= Len(b)
    /\ a = SubSeq(b, Len(b) - Len(a) + 1, Len(b))

\* C27: the verbatim messages of the session are a suffix of the messages
\* appended since it was created or last cleared, in their order and with
\* the role, content, token count and timestamp they were appended with:
\* compaction only removes messages from the front.
C27_MessagesAreSuffixOfAppended ==
    sess # Null => IsSuffix(sess.messages, last.log)

\* Three messages were appended, a compaction folded some of them, and the
\* session holds at least one of them verbatim.
C27_Witness ==
    /\ last.op = "addMessage"
    /\ last.out.folded
    /\ Len(last.log) = 3
    /\ Len(sess.messages) \in 1..2
    /\ IsSuffix(sess.messages, last.log)

-----------------------------------------------------------------------------
(* SessionStore: the compression ratio of getSessionStats                  *)

\* The estimated tokens of the messages folded into the summary: those
\* appended since the session was created or cleared and no longer verbatim.
FoldedTokens == SumTokens(last.log) - SumTokens(sess.messages)

\* C28: getSessionStats reports compressionRatio 0 when there is no summary,
\* and otherwise the percentage by which the summary is smaller than the
\* estimated tokens of the messages folded into it (a summary one quarter of
\* the folded material gives 75, one half gives 50).
C28_RatioAgainstFolded ==
    last.op = "getSessionStats" =>
        IF sess.summary = <<>>
        THEN last.value.compressionRatio.number = 0
        ELSE FoldedTokens > 0 =>
                last.value.compressionRatio.number
                    = RoundPercent(FoldedTokens - sess.summaryTokens, FoldedTokens)

\* What the code computes instead: 50 whenever there is a summary.
C28_AlwaysHalf ==
    last.op = "getSessionStats" =>
        last.value.compressionRatio.number = IF sess.summary = <<>> THEN 0 ELSE 50

-----------------------------------------------------------------------------
(* The retriever's buildContext under every combination of its include     *)
(* flags: the embeddings are initialised, items are added, and one context *)
(* is built.                                                               *)

\* The options of buildContext: no flag given, or each of the four given.
FlagOptions ==
    {<<>>} \cup
    {[includeConversation |-> a, includeCode |-> b,
      includeDecisions |-> c, includePatterns |-> d] : a, b, c, d \in BOOLEAN}

BuildContextOfFlags ==
    /\ ret.op = "none"
    /\ \E query \in MemQueries, options \in FlagOptions :
        \E env \in ReadEnvs(vs, em, query) :
            Retrieves("buildContext", query, options, env, vs,
                      buildContext(vs, em, query, options, env))
    /\ UNCHANGED <<em, mClock, notMem>>

FlagsNext == InitEmbeddings \/ AddMemory \/ BuildContextOfFlags

SpecFlags == MemInit /\ [][FlagsNext]_vars

\* Whether the include flag of a type is set in the options of the last
\* buildContext, a flag that is not given being set; 'context' has no flag.
FlagSet(type) ==
    LET o == ret.options @@ [includeConversation |-> TRUE, includeCode |-> TRUE,
                             includeDecisions |-> TRUE, includePatterns |-> TRUE]
    IN  \/ type = "conversation" /\ o.includeConversation
        \/ type = "code" /\ o.includeCode
        \/ type = "decision" /\ o.includeDecisions
        \/ type = "pattern" /\ o.includePatterns

\* The four flags were given, and all are cleared.
AllFlagsCleared ==
    /\ ret.options # <<>>
    /\ \A f \in DOMAIN ret.options : ~ret.options[f]

\* C29: every item returned by buildContext has a type whose include flag is
\* set, for every combination of the four flags; with all four cleared no
\* item is returned.
C29_OnlyIncludedTypes ==
    ret.op = "buildContext" =>
        /\ \A i \in DOMAIN ret.value.items : FlagSet(ret.value.items[i].type)
        /\ AllFlagsCleared => ret.value.items = <<>>

\* C29 for the combinations with at least one flag set.
C29_WhenSomeFlagSet ==
    (ret.op = "buildContext" /\ ~AllFlagsCleared) =>
        \A i \in DOMAIN ret.value.items : FlagSet(ret.value.items[i].type)

-----------------------------------------------------------------------------
(* PipelineMemory, getStepOutputForBudget: src/src/context/tokens.ts       *)

\* '- '
KEY_POINT_BULLET == <<"-", " ">>

\* The key points as one text: '- ' + mem.keyPoints.join('\n- '), or ''
KeyPointsText(mem) ==
    IF Len(mem.keyPoints) > 0
    THEN KEY_POINT_BULLET \o JoinWith(mem.keyPoints, KEY_POINT_SEPARATOR)
    ELSE <<>>

\* Math.floor(mem.summary.length * (tokenBudget / mem.summaryTokens) * 0.9),
\* computed in tenths
TargetChars(mem, tokenBudget) ==
    (Len(mem.summary) * tokenBudget * 9) \div (mem.summaryTokens * 10)

\* getStepOutputForBudget(ctx, stepId, tokenBudget), for a stepId that is not a
\* name every object inherits.  The comparison with mem.summaryTokens * 0.5 is
\* made in halves.
getStepOutputForBudget(ctx, stepId, tokenBudget) ==
    IF stepId \notin DOMAIN ctx.memory
    THEN IF stepId \in DOMAIN ctx.steps THEN ContentOf(ctx.steps[stepId]) ELSE <<>>
    ELSE
        LET mem == ctx.memory[stepId]
            keyPointsStr == KeyPointsText(mem)
            keyPointsTokens == estimateTokens(keyPointsStr)
        IN  IF /\ keyPointsTokens > 0
               /\ tokenBudget * 2 < mem.summaryTokens
               /\ keyPointsTokens <= tokenBudget
            THEN keyPointsStr
            ELSE IF mem.summaryTokens <= tokenBudget
            THEN mem.summary
            ELSE Slice(mem.summary, 0, TargetChars(mem, tokenBudget)) \o TRUNCATED_SUFFIX

-----------------------------------------------------------------------------
(* The specification of getStepOutputForBudget: a context is created,      *)
(* steps are recorded, memory is cleared, and the output of a step is      *)
(* asked for a budget.                                                     *)

\* The budget from which a truncated summary and its marker fit, whatever the
\* summary: floor(3.6 * budget) + 16 characters are at most 4 * budget.
MarkerFits == 38

\* A budget between the key points and half the summary of a step recorded
\* while the service fails.
KeyPointsFit == 60

StepBudgets ==
    {0, 1, MarkerFits - 1, MarkerFits, KeyPointsFit,
     getAvailableTokens(DEFAULT_MEMORY_CONFIG.targetAgent, 0) + OverBudget}

\* No output has been asked for yet.
OutputNotAsked == pOut.op # "getStepOutputForBudget"

StepOutputAddStep == OutputNotAsked /\ PipeAddStep

StepOutputClearMemory == OutputNotAsked /\ PipeClearMemory

\* getStepOutputForBudget(ctx, stepId, tokenBudget)
PipeStepOutput ==
    /\ OutputNotAsked
    /\ \E stepId \in StepIds, tokenBudget \in StepBudgets :
        pOut' = [op |-> "getStepOutputForBudget", stepId |-> stepId,
                 tokenBudget |-> tokenBudget, ctx |-> held,
                 value |-> getStepOutputForBudget(HeapContext(heap, held), stepId,
                                                  tokenBudget)]
    /\ UNCHANGED <<heap, held, tokVars, sumVars, sessVars, memVars, asyncVars>>

StepOutputNext == StepOutputAddStep \/ StepOutputClearMemory \/ PipeStepOutput

SpecStepOutput == PipeInit /\ [][StepOutputNext]_vars

\* The memory record of the step whose output was asked for.
AskedMemory == HeapContext(heap, pOut.ctx).memory[pOut.stepId]

\* The last call asked for the output of a step that has a memory record.
AskedOfRecord ==
    /\ pOut.op = "getStepOutputForBudget"
    /\ pOut.stepId \in DOMAIN HeapContext(heap, pOut.ctx).memory

\* C30: for every step that has a memory record and every tokenBudget >= 0,
\* getStepOutputForBudget returns the key points, the summary, or a truncated
\* summary with its marker, of at most tokenBudget estimated tokens.
C30_OutputWithinBudget ==
    (AskedOfRecord /\ pOut.tokenBudget >= 0) =>
        estimateTokens(pOut.value) <= pOut.tokenBudget

\* C30 for the answers that are not truncated, and for the truncated ones from
\* a budget of MarkerFits tokens on.
C30_UnlessTruncatedBelowMarker ==
    (AskedOfRecord /\ pOut.tokenBudget >= 0) =>
        \/ estimateTokens(pOut.value) <= pOut.tokenBudget
        \/ /\ pOut.tokenBudget < MarkerFits
           /\ AskedMemory.summaryTokens > pOut.tokenBudget
           /\ pOut.value = Slice(AskedMemory.summary, 0,
                                 TargetChars(AskedMemory, pOut.tokenBudget))
                               \o TRUNCATED_SUFFIX

-----------------------------------------------------------------------------
(* The specification of summarizeIfNeeded: a text of filler, a token limit *)
(* and an answer of the service.                                           *)

\* The longest text, in tokens.
MaxTextTokens == 60

\* The largest token limit.
MaxTokenLimit == 50

\* The token limit from which the fallback of summarize fits the limit:
\* floor(0.8 * limit) tokens and the 38 characters of the marker.
FallbackFits == 46

IfNeededTexts == {Filler(CHARS_PER_TOKEN * k) : k \in 0..MaxTextTokens}

IfNeededOptions == {<<>>, [maxLength |-> 1, preserveCode |-> FALSE]}

IfNeededAnswers ==
    {[status |-> "ok", response |-> <<"s">>], [status |-> "error"],
     [status |-> "unreachable"]}

IfNeededInit ==
    /\ sText \in IfNeededTexts
    /\ sOpts \in IfNeededOptions
    /\ sSvc = <<>>
    /\ sOut = <<>>
    /\ sPc = "start"
    /\ IdleButSum

SummarizeIfNeeded ==
    /\ sPc = "start"
    /\ \E svc \in IfNeededAnswers, tokenLimit \in 0..MaxTokenLimit :
        /\ sSvc' = [svc |-> svc, tokenLimit |-> tokenLimit]
        /\ sOut' = summarizeIfNeeded(sText, tokenLimit, sOpts, svc)
    /\ sPc' = "summarizeIfNeeded"
    /\ UNCHANGED <<sText, sOpts, notSum>>

IfNeededNext == SummarizeIfNeeded

SpecIfNeeded == IfNeededInit /\ [][IfNeededNext]_vars

\* floor(0.8 * tokenLimit) of the last call
TargetOfLimit == (sSvc.tokenLimit * 8) \div 10

\* C31: summarizeIfNeeded returns the text unchanged when its estimate is at
\* most tokenLimit; otherwise it asks the service for a summary of
\* floor(0.8 * tokenLimit) tokens, and when the service fails the fallback it
\* returns (the truncated original and the failure marker) is of at most
\* tokenLimit estimated tokens.
C31_WithinTokenLimit ==
    sPc = "summarizeIfNeeded" =>
        /\ ~sOut.threw
        /\ IF estimateTokens(sText) <= sSvc.tokenLimit
           THEN sOut = Returned(sText, <<>>)
           ELSE /\ Len(sOut.calls) = 1
                /\ sOut.calls[1].maxLength = TargetOfLimit
                /\ sSvc.svc.status # "ok" =>
                       /\ Contains(sOut.value, FAILED_TAG)
                       /\ estimateTokens(sOut.value) <= sSvc.tokenLimit

\* C31 for a token limit from FallbackFits on.
C31_FromFallbackFits ==
    (sPc = "summarizeIfNeeded" /\ sSvc.tokenLimit >= FallbackFits) => C31_WithinTokenLimit

\* The text is returned unchanged whenever its estimate is at most tokenLimit.
C31_Passthrough ==
    (sPc = "summarizeIfNeeded" /\ estimateTokens(sText) <= sSvc.tokenLimit) =>
        sOut = Returned(sText, <<>>)


-----------------------------------------------------------------------------
(* The requests for the model listing under overlapping calls.              *)

\* The calls whose request for the model listing is outstanding.
AwaitingList == {c \in CallIds : inflight[c].pc = "listing"}

\* C32: whatever number of calls of isOllamaAvailable and initEmbeddings
\* overlap, the model listing is requested at most once: never are two
\* requests for it outstanding, and none is outstanding once one has been
\* answered.
C32_ListedAtMostOnce ==
    /\ Cardinality(AwaitingList) <= 1
    /\ hist.first # Null => AwaitingList = {}

\* A call that begins once an answer has been cached requests no listing.
C32_CachedCallsDoNotList ==
    \A c \in AwaitingList : ~inflight[c].later


-----------------------------------------------------------------------------
(* addStepResultWithMemory step by step: the call up to the probe of the    *)
(* service, the dispatch of the two requests when the probe answers, the    *)
(* two answers in either order, and the return.  hist lists the requests    *)
(* sent and the answers received, in their order.                           *)

\* How far around 0 and around the key-point minimum the sizes are taken.
FanOutSpread == 2

FanOutTokens ==
    (0..FanOutSpread + 1)
        \cup (KEY_POINTS_MIN_TOKENS - FanOutSpread..KEY_POINTS_MIN_TOKENS + FanOutSpread)

FanOutContents == {Filler(CHARS_PER_TOKEN * k) : k \in FanOutTokens}

FanOutThresholds ==
    (0..FanOutSpread) \cup {KEY_POINTS_MIN_TOKENS - FanOutSpread - 1, KEY_POINTS_MIN_TOKENS}

FanOutProbes == {"ok", "http_error", "unreachable"}

FanOutAnswers == {"ok", "error", "unreachable"}

\* The service's answer to the summarization and to the key-point request.
SummaryAnswer(status) == IF status = "ok" THEN EnvUp.svc ELSE [status |-> status]

KeyPointsAnswer(status) == IF status = "ok" THEN EnvUp.svcKey ELSE [status |-> status]

Pending == [pending |-> TRUE]

Settled(outcome, status) == [pending |-> FALSE, outcome |-> outcome, status |-> status]

FanOutInit ==
    /\ inflight = [pc |-> "new"]
    /\ hist = <<>>
    /\ heap = <<>>
    /\ held = 0
    /\ pOut = [op |-> "none"]
    /\ TokIdle /\ SumIdle /\ SessIdle /\ MemIdle

\* The return of the call: the record is stored in a new context.
FanOutReturn(ctx, result, output) ==
    /\ pOut' = [op |-> "addStepResultWithMemory",
                value |-> StoredStep(ctx, result, Undefined, output).value]
    /\ inflight' = [inflight EXCEPT !.pc = "done"]

\* The call up to its first await: an output within the threshold is stored
\* as it is; otherwise isSummarizerAvailable is called, which asks the
\* service for its tags when the adapter is enabled.
FanOutStart ==
    /\ inflight.pc = "new"
    /\ \E content \in FanOutContents, threshold \in FanOutThresholds, enabled \in BOOLEAN :
        LET ctx == createMemoryContext(<<"p">>, <<>>, [summarizeThreshold |-> threshold])
            result == [stepId |-> S1, content |-> content, status |-> "completed"]
        IN  IF estimateTokens(content) > threshold
            THEN /\ inflight' = [pc |-> "isSummarizerAvailable", ctx |-> ctx,
                                 result |-> result, enabled |-> enabled,
                                 dispatched |-> FALSE]
                 /\ hist' = IF enabled THEN <<"tags">> ELSE <<>>
                 /\ UNCHANGED pOut
            ELSE /\ inflight' = [pc |-> "done", ctx |-> ctx, result |-> result,
                                 enabled |-> enabled, dispatched |-> FALSE]
                 /\ pOut' = [op |-> "addStepResultWithMemory",
                             value |-> StoredStep(ctx, result, Undefined,
                                           [entry |-> PlainOutput(content, 1),
                                            calls |-> <<>>]).value]
                 /\ UNCHANGED hist
    /\ UNCHANGED <<heap, held, tokVars, sumVars, sessVars, memVars>>

\* isSummarizerAvailable returns.  When the service is reachable,
\* summarizeIfNeeded and extractKeyPoints are called one after the other,
\* each up to its first await, and the call waits for both.
FanOutDispatch ==
    /\ inflight.pc = "isSummarizerAvailable"
    /\ \E probe \in FanOutProbes :
        LET content == inflight.result.content
            threshold == inflight.ctx.config.summarizeThreshold
            available == isSummarizerAvailable(inflight.enabled, probe)
            summary == summarizeIfNeeded(content, threshold, <<>>, SummaryAnswer("error"))
            keyPoints == extractKeyPoints(content, KeyPointsAnswer("error"))
        IN  IF available.value
            THEN /\ inflight' = [inflight EXCEPT
                                    !.pc = "Promise.all",
                                    !.dispatched = TRUE] @@
                                [probe |-> probe,
                                 summary |-> IF summary.calls = <<>>
                                             THEN Settled(summary, "none") ELSE Pending,
                                 keyPoints |-> IF keyPoints.calls = <<>>
                                               THEN Settled(keyPoints, "none")
                                               ELSE Pending]
                 /\ hist' = hist
                              \o (IF summary.calls = <<>> THEN <<>> ELSE <<"summarize">>)
                              \o (IF keyPoints.calls = <<>> THEN <<>> ELSE <<"keyPoints">>)
                 /\ UNCHANGED pOut
            ELSE /\ FanOutReturn(inflight.ctx, inflight.result,
                                 [entry |-> PlainOutput(content, 1),
                                  calls |-> available.calls])
                 /\ UNCHANGED hist
    /\ UNCHANGED <<heap, held, tokVars, sumVars, sessVars, memVars>>

\* The summarization request is answered, or fails.
FanOutSummaryAnswered ==
    /\ inflight.pc = "Promise.all"
    /\ inflight.summary = Pending
    /\ \E status \in FanOutAnswers :
        /\ inflight' = [inflight EXCEPT !.summary =
                           Settled(summarizeIfNeeded(inflight.result.content,
                                                     inflight.ctx.config.summarizeThreshold,
                                                     <<>>, SummaryAnswer(status)),
                                   status)]
        /\ hist' = Append(hist, "summarize answered")
    /\ UNCHANGED <<pOut, heap, held, tokVars, sumVars, sessVars, memVars>>

\* The key-point request is answered, or fails.
FanOutKeyPointsAnswered ==
    /\ inflight.pc = "Promise.all"
    /\ inflight.keyPoints = Pending
    /\ \E status \in FanOutAnswers :
        /\ inflight' = [inflight EXCEPT !.keyPoints =
                           Settled(extractKeyPoints(inflight.result.content,
                                                    KeyPointsAnswer(status)),
                                   status)]
        /\ hist' = Append(hist, "keyPoints answered")
    /\ UNCHANGED <<pOut, heap, held, tokVars, sumVars, sessVars, memVars>>

\* Both promises are settled: the record takes the summary and the key
\* points, and the new context is returned.
FanOutFinish ==
    /\ inflight.pc = "Promise.all"
    /\ inflight.summary # Pending
    /\ inflight.keyPoints # Pending
    /\ FanOutReturn(inflight.ctx, inflight.result,
                    SummarizedOutput(inflight.result.content,
                                     inflight.ctx.config.targetAgent, 1,
                                     Returned(TRUE, <<"tags">>),
                                     inflight.summary.outcome,
                                     inflight.keyPoints.outcome))
    /\ UNCHANGED <<hist, heap, held, tokVars, sumVars, sessVars, memVars>>

FanOutNext ==
    \/ FanOutStart
    \/ FanOutDispatch
    \/ FanOutSummaryAnswered
    \/ FanOutKeyPointsAnswered
    \/ FanOutFinish

SpecFanOut == FanOutInit /\ [][FanOutNext]_vars

Sent(event) == \E i \in 1..Len(hist) : hist[i] = event

\* The record the call has stored.
FanOutRecord == pOut.value.memory[S1]

Failed(status) == status \in {"error", "unreachable"}

\* C33: when the output exceeds summarizeThreshold and the service is
\* reachable, both the summarization request and the key-point request have
\* been sent when the call starts to wait; the context is returned only when
\* both have been answered or have failed; and when one of them has failed,
\* the record holds what the other one answered.
C33_BothSentBothAwaited ==
    /\ inflight.pc = "Promise.all" => Sent("summarize") /\ Sent("keyPoints")
    /\ (inflight.pc = "done" /\ inflight.dispatched) =>
        /\ Sent("summarize answered") /\ Sent("keyPoints answered")
        /\ (Failed(inflight.summary.status) /\ inflight.keyPoints.status = "ok") =>
               FanOutRecord.keyPoints = KeyPointLines(SplitLines(Trim(EnvUp.svcKey.response)))
        /\ (Failed(inflight.keyPoints.status) /\ inflight.summary.status = "ok") =>
               FanOutRecord.summary = Trim(EnvUp.svc.response)

\* The output is one that both functions send a request for.
BothAsk ==
    /\ (inflight.ctx.config.summarizeThreshold * 8) \div 10 > 0
    /\ estimateTokens(inflight.result.content) >= KEY_POINTS_MIN_TOKENS

C33_WhenBothAsk ==
    (inflight.pc \in {"Promise.all", "done"} /\ BothAsk) => C33_BothSentBothAwaited

\* A request that was sent has been answered when the context is returned,
\* and the record is the one that addStepResultWithMemory stores in one step.
C33_ReturnedAfterAnswers ==
    (inflight.pc = "done" /\ inflight.dispatched) =>
        /\ Sent("summarize") => Sent("summarize answered")
        /\ Sent("keyPoints") => Sent("keyPoints answered")
        /\ pOut.value =
               addStepResultWithMemory(inflight.ctx, inflight.result, Undefined, 1,
                   [enabled |-> inflight.enabled, probe |-> inflight.probe,
                    svc |-> SummaryAnswer(IF inflight.summary.status = "none"
                                          THEN "error" ELSE inflight.summary.status),
                    svcKey |-> KeyPointsAnswer(IF inflight.keyPoints.status = "none"
                                               THEN "error"
                                               ELSE inflight.keyPoints.status)]).value


-----------------------------------------------------------------------------
(* The items that retrieve returns, against its candidates.                 *)

\* The options of the last retrieve with their defaults.
RetrieveAsked == RetrieveDefaults(ret.options)

\* The candidates out of what the searches gathered: the results ranked,
\* with the recent items, cut to limit.
CandidatesOf(gathered, o) ==
    ItemsOf(Slice(WithRecent(gathered.st.memory, Ranked(gathered.results, o.minScore), o),
                  0, o.limit))

\* The candidates of the last retrieve.
RetrieveCandidates ==
    CandidatesOf(Searched(ret.before, em, ret.query, RetrieveAsked, ret.env), RetrieveAsked)

\* items is a prefix of candidates; every item of the prefix was within
\* maxTokens when it was taken, and the first candidate left out would have
\* exceeded maxTokens.
PrefixUntilFirstOverflow(items, candidates, maxTokens) ==
    /\ Len(items) <= Len(candidates)
    /\ items = SubSeq(candidates, 1, Len(items))
    /\ \A n \in 1..Len(items) : ItemTokens(SubSeq(candidates, 1, n)) <= maxTokens
    /\ Len(items) < Len(candidates) =>
           ItemTokens(SubSeq(candidates, 1, Len(items) + 1)) > maxTokens

\* C34: the items that retrieve returns are a prefix of its candidates; the
\* selection stops at the first candidate that would exceed maxTokens,
\* whatever the candidates after it.
C34_PrefixUntilFirstOverflow ==
    ret.op = "retrieve" =>
        PrefixUntilFirstOverflow(ret.value.items, RetrieveCandidates, RetrieveAsked.maxTokens)

\* Some candidate after position n fits in what is left of maxTokens.
LaterFits(candidates, n, totalTokens, maxTokens) ==
    /\ n + 1 < Len(candidates)
    /\ \E j \in n + 2..Len(candidates) :
           totalTokens + retrieverEstimateTokens(candidates[j].content) <= maxTokens

\* A candidate after the first one left out would have fit.
C34_Witness ==
    /\ ret.op = "retrieve"
    /\ LaterFits(RetrieveCandidates, Len(ret.value.items), ret.value.totalTokens,
                 RetrieveAsked.maxTokens)

-----------------------------------------------------------------------------
(* The order of the items that retrieve returns.                            *)

\* The scores of results, in their order.
ScoresIn(results) == [i \in 1..Len(results) |-> results[i].score]

\* The scores that retrieve has assigned to its candidates, in their order:
\* the score of the search, or RECENCY_SCORE for a recent item added.
ScoresOf(gathered, o) ==
    ScoresIn(Slice(WithRecent(gathered.st.memory, Ranked(gathered.results, o.minScore), o),
                   0, o.limit))

NonIncreasing(scores, n) == \A i \in 1..n - 1 : scores[i] >= scores[i + 1]

\* C35: for every minScore, 0 included, the items that retrieve returns are
\* in non-increasing order of the score assigned to them.
C35_ScoresNonIncreasing ==
    ret.op = "retrieve" =>
        NonIncreasing(ScoresOf(Searched(ret.before, em, ret.query, RetrieveAsked, ret.env),
                               RetrieveAsked),
                      Len(ret.value.items))

\* With a minScore above the score of a recent item the order holds.
C35_AboveRecencyScore ==
    (ret.op = "retrieve" /\ RetrieveAsked.minScore > RECENCY_SCORE) => C35_ScoresNonIncreasing


-----------------------------------------------------------------------------
(* The resolution of {{name}}: the named output, then the initial          *)
(* variable, then the placeholder itself.                                   *)

\* The k-th match is a plain name, without a dot.
PlainName(k) == IndexOf(InjectedName(k), <<".">>) = -1

\* The text of an initial variable.
InitialText(val) == IF Has(val, "string") THEN val.string ELSE JsonNumber(val.number)

\* What takes the place of name from outputs and initial: the output of that
\* name cut for the agent, or the summary of the step that produced it;
\* otherwise the initial variable of that name cut for the agent; otherwise
\* the match.
ResolvedByName(sub, match, name, ctx, agent) ==
    IF name \in DOMAIN ctx.outputs
    THEN /\ ~sub.threw
         /\ \/ sub.value = truncateForAgent(ctx.outputs[name], agent, 0)
            \/ \E id \in DOMAIN ctx.memory :
                   /\ ctx.memory[id].raw = ctx.outputs[name]
                   /\ sub.value = ctx.memory[id].summary
    ELSE IF name \in DOMAIN ctx.initial
    THEN /\ ~sub.threw
         /\ sub.value = truncateForAgent(InitialText(ctx.initial[name]), agent, 0)
    ELSE sub = Returned(match, <<>>)

\* C36: every {{name}} is replaced by the named output called name when there
\* is one, otherwise by the initial variable called name, and is otherwise
\* left as it is.
C36_OutputThenInitialThenVerbatim ==
    pOut.op = "injectVariablesTokenSafe" =>
        \A k \in 1..Len(InjectedMatches) :
            PlainName(k) =>
                ResolvedByName(Substitutions(pOut.template, InjectedContext, InjectedAgent)[k],
                               MatchText(pOut.template, InjectedMatches, k),
                               InjectedName(k), InjectedContext, InjectedAgent)

\* The k-th match is the prompt, a name that every object inherits, or an
\* initial variable without a value.
SpecialName(k) ==
    \/ InjectedName(k) = PROMPT_NAME
    \/ InjectedName(k) \in OBJECT_PROTOTYPE
    \/ /\ InjectedName(k) \in DOMAIN InjectedContext.initial
       /\ InjectedContext.initial[InjectedName(k)] = Undefined

\* The resolution holds for every other name.
C36_ButSpecialNames ==
    pOut.op = "injectVariablesTokenSafe" =>
        \A k \in 1..Len(InjectedMatches) :
            (PlainName(k) /\ ~SpecialName(k)) =>
                ResolvedByName(Substitutions(pOut.template, InjectedContext, InjectedAgent)[k],
                               MatchText(pOut.template, InjectedMatches, k),
                               InjectedName(k), InjectedContext, InjectedAgent)


-----------------------------------------------------------------------------
(* The preview of a listed session.                                         *)

\* The text a preview is taken from: the first user message, or the summary
\* when the session has no user message.
PreviewSource(session) ==
    IF FirstUserMessage(session.messages) # Undefined
    THEN FirstUserMessage(session.messages).content
    ELSE session.summary

\* The first PREVIEW_LENGTH characters of the source, with the ellipsis when
\* the source is longer.
PreviewCut(source) ==
    IF Len(source) > PREVIEW_LENGTH THEN Slice(source, 0, PREVIEW_LENGTH) \o ELLIPSIS
    ELSE source

\* The previews of metas are those of the sessions stored in fs whose source
\* is in lengths.
PreviewsCut(metas, fs, lengths) ==
    \A i \in 1..Len(metas) :
        Len(PreviewSource(StoredSession(fs, metas[i].id))) \in lengths =>
            metas[i].preview = PreviewCut(PreviewSource(StoredSession(fs, metas[i].id)))

\* C37: the preview of a listed session is the first 100 characters of its
\* first user message, or of its summary when it has no user message, and
\* ends with an ellipsis if and only if that text is longer than 100
\* characters.
C37_EllipsisIffLonger ==
    last.op = "listSessions" =>
        PreviewsCut(last.value, files, 1..PREVIEW_LENGTH + PREVIEW_LENGTH)

\* It is so for every text but one of exactly 100 characters.
C37_ButExactLength ==
    last.op = "listSessions" =>
        PreviewsCut(last.value, files, (1..PREVIEW_LENGTH + PREVIEW_LENGTH) \ {PREVIEW_LENGTH})


-----------------------------------------------------------------------------
(* splitIntoChunks one iteration at a time.  tOut holds the variables      *)
(* remaining and chunks until the return, and the list returned after it.  *)

\* config.chunkSize * CHARS_PER_TOKEN: a number, or NaN when the config has
\* no chunkSize.
NaN == [nan |-> TRUE]

ChunkCharsOf(agent) ==
    IF Has(getTokenConfig(agent), "chunkSize")
    THEN [number |-> getTokenConfig(agent).chunkSize * CHARS_PER_TOKEN]
    ELSE NaN

\* length <= chunkChars, which is false when chunkChars is NaN
AtMost(length, chunkChars) == chunkChars # NaN /\ length <= chunkChars.number

\* The break point of an iteration: after the last paragraph break or the
\* last sentence break of the second half of the window, or else the end of
\* the window.
BreakPoint(remaining, chunkChars) ==
    LET paragraphBreak == LastIndexOfFrom(remaining, PARAGRAPH_BREAK, chunkChars)
        sentenceBreak == LastIndexOfFrom(remaining, SENTENCE_BREAK, chunkChars)
    IN  IF paragraphBreak * 2 > chunkChars THEN paragraphBreak + 2
        ELSE IF sentenceBreak * 2 > chunkChars THEN sentenceBreak + 2
        ELSE chunkChars

\* What an iteration cuts off: with a chunkChars of NaN no comparison holds,
\* the break point is NaN, slice(0, NaN) is empty and slice(NaN) is the
\* whole of remaining.
CutAt(remaining, chunkChars) ==
    IF chunkChars = NaN THEN 0 ELSE BreakPoint(remaining, chunkChars.number)

\* The most chunks pushed before the loop is left to itself.
MaxChunks == 4

LoopAgents == ChunkAgents \cup {"toString"}

LoopTexts(agent) ==
    IF agent \in ChunkAgents THEN ChunkTexts(agent)
    ELSE StringsUpTo(TokAlphabet, ChunkMiddle)

SplitLoopInit ==
    /\ tAgent \in LoopAgents
    /\ tText \in LoopTexts(tAgent)
    /\ tUsed = 0
    /\ tOut = [remaining |-> tText, chunks |-> <<>>]
    /\ tPc = "start"
    /\ IdleButTok

\* splitIntoChunks up to its loop: a text within the window is returned as
\* the only chunk.
SplitLoopStart ==
    /\ tPc = "start"
    /\ IF AtMost(Len(tText), ChunkCharsOf(tAgent))
       THEN tOut' = [returned |-> <<tText>>] /\ tPc' = "split"
       ELSE tOut' = tOut /\ tPc' = "while"
    /\ UNCHANGED <<tText, tAgent, tUsed, notTok>>

\* One evaluation of the loop's condition and, when it holds, of its body.
SplitLoopIteration ==
    /\ tPc = "while"
    /\ Len(tOut.chunks) < MaxChunks
    /\ IF Len(tOut.remaining) = 0
       THEN tOut' = [returned |-> tOut.chunks] /\ tPc' = "split"
       ELSE IF AtMost(Len(tOut.remaining), ChunkCharsOf(tAgent))
       THEN tOut' = [returned |-> Append(tOut.chunks, tOut.remaining)] /\ tPc' = "split"
       ELSE /\ tOut' = [remaining |->
                            Trim(SliceFrom(tOut.remaining,
                                           CutAt(tOut.remaining, ChunkCharsOf(tAgent)))),
                        chunks |->
                            Append(tOut.chunks,
                                   Trim(Slice(tOut.remaining, 0,
                                              CutAt(tOut.remaining, ChunkCharsOf(tAgent)))))]
            /\ tPc' = "while"
    /\ UNCHANGED <<tText, tAgent, tUsed, notTok>>

SplitLoopNext == SplitLoopStart \/ SplitLoopIteration

SpecSplitLoop == SplitLoopInit /\ [][SplitLoopNext]_vars

\* The loop can take an iteration: this is ENABLED <<SplitLoopIteration>>_vars,
\* an iteration changing tPc or adding a chunk.
CanIterate == tPc = "while" /\ Len(tOut.chunks) < MaxChunks

\* The function runs without interruption: the call begins, and an iteration
\* that can be taken is taken.  The weak fairness of the iteration is written
\* out with CanIterate.
SpecSplitLoopFair ==
    /\ SpecSplitLoop
    /\ WF_vars(SplitLoopStart)
    /\ ([]<>(~CanIterate) \/ []<><<SplitLoopIteration>>_vars)

\* An iteration that stays in the loop leaves less of the text than it found.
Shortens == (tPc = "while" /\ tPc' = "while") => Len(tOut'.remaining) < Len(tOut.remaining)

\* C38: splitIntoChunks terminates for every text and every agent: each
\* iteration of its loop strictly shortens what remains of the text, and the
\* list of chunks is returned.
C38_SplitTerminates == [][Shortens]_vars /\ <>(tPc = "split")

\* For the agents of ADAPTER_LIMITS each iteration shortens what remains,
C38_ListedAgentsShorten == [][(tAgent \in ChunkAgents) => Shortens]_vars

\* and the list is returned.
C38_ListedAgentsReturn == (tAgent \in ChunkAgents) ~> (tPc = "split")

\* The list returned is the one of splitIntoChunks in one step, and the
\* loop of a listed agent ends before MaxChunks chunks.
C38_SameChunks ==
    /\ (tPc = "split" /\ tAgent \in ChunkAgents) =>
           tOut.returned = splitIntoChunks(tText, tAgent)
    /\ (tPc = "while" /\ tAgent \in ChunkAgents) => Len(tOut.chunks) < MaxChunks - 1


-----------------------------------------------------------------------------
(* The search method that retrieve reports.                                 *)

\* The last read has queried the vector table and got its answer.
VectorQueried ==
    /\ \E i \in 1..Len(ret.calls) : Has(ret.calls[i], "search")
    /\ ret.env.nn = "ok"

\* C39: retrieve reports the search method vector only if the vector table
\* was queried with success during the call, and fts5 whenever its results
\* came from the keyword search.
C39_MethodIsTheOneUsed ==
    ret.op = "retrieve" =>
        /\ ret.value.searchMethod = "vector" => VectorQueried
        /\ ~VectorQueried => ret.value.searchMethod = "fts5"

\* With the keyword provider the method reported is fts5 and the vector
\* table is not queried; and a vector query happens only under the method
\* vector.
C39_KeywordProvider ==
    ret.op = "retrieve" =>
        /\ em.currentProvider = "fts5" =>
               ret.value.searchMethod = "fts5" /\ ~VectorQueried
        /\ VectorQueried => ret.value.searchMethod = "vector"


-----------------------------------------------------------------------------
(* loginCommand, the browser flow from its polling loop on                  *)
(* (src/src/cli/commands/login.ts).  inflight holds the variables of the    *)
(* call: where it is, attempts, approved, the answer of the last poll and   *)
(* the outcomes it has reported; hist holds the stored config's token, the  *)
(* one it had when the loop began, and the number of times it was saved.    *)

MAX_POLL_ATTEMPTS == 150

\* What a poll of the session's status can give: the request fails, the
\* answer is not ok, the body cannot be read as JSON, or the body says a
\* status, with or without an access token and a user when approved.  The
\* server may say a status that the command does not know.
PollStatuses == {"pending", "approved", "denied", "expired", "revoked"}

PollAnswers ==
    {[kind |-> k, status |-> "", access_token |-> "", user |-> FALSE] :
        k \in {"network_error", "http_error", "unreadable"}}
    \cup {[kind |-> "json", status |-> s, access_token |-> "", user |-> FALSE] :
             s \in PollStatuses}
    \cup {[kind |-> "json", status |-> "approved", access_token |-> t, user |-> u] :
             t \in {"", "new"}, u \in BOOLEAN}

\* The tokens the stored config can hold when the command is run: none, or
\* the one of an earlier login.
StoredTokens == {"", "old"}

\* The body of the loop after the poll, with the token saved whatever the
\* approval carries.
AfterPollSavingAlways(answer, token) ==
    IF answer.kind \in {"network_error", "unreadable"}
    THEN [continue |-> TRUE, approved |-> FALSE, reported |-> <<>>, token |-> token,
          saved |-> FALSE]
    ELSE IF answer.kind = "http_error"
    THEN [continue |-> FALSE, approved |-> FALSE, reported |-> <<"error status">>,
          token |-> token, saved |-> FALSE]
    ELSE IF answer.status = "approved"
    THEN [continue |-> FALSE, approved |-> TRUE, reported |-> <<"approved">>,
          token |-> answer.access_token, saved |-> TRUE]
    ELSE IF answer.status \in {"denied", "expired"}
    THEN [continue |-> FALSE, approved |-> FALSE, reported |-> <<answer.status>>,
          token |-> token, saved |-> FALSE]
    ELSE [continue |-> TRUE, approved |-> FALSE, reported |-> <<>>, token |-> token,
          saved |-> FALSE]

\* The body of the loop after the poll: whether the loop goes on, what is
\* reported, and the token of the stored config.  A failure of the request
\* or of the reading of the body is caught and the loop goes on; an answer
\* that is not ok, and the statuses approved, denied and expired, end the
\* command; any other status is waited on.
AfterPoll(answer, token) ==
    IF answer.kind \in {"network_error", "unreadable"}
    THEN [continue |-> TRUE, approved |-> FALSE, reported |-> <<>>, token |-> token,
          saved |-> FALSE]
    ELSE IF answer.kind = "http_error"
    THEN [continue |-> FALSE, approved |-> FALSE, reported |-> <<"error status">>,
          token |-> token, saved |-> FALSE]
    ELSE IF answer.status = "approved"
    THEN IF answer.access_token # "" /\ answer.user
         THEN [continue |-> FALSE, approved |-> TRUE, reported |-> <<"approved">>,
               token |-> answer.access_token, saved |-> TRUE]
         ELSE [continue |-> FALSE, approved |-> FALSE, reported |-> <<"approved">>,
               token |-> token, saved |-> FALSE]
    ELSE IF answer.status \in {"denied", "expired"}
    THEN [continue |-> FALSE, approved |-> FALSE, reported |-> <<answer.status>>,
          token |-> token, saved |-> FALSE]
    ELSE [continue |-> TRUE, approved |-> FALSE, reported |-> <<>>, token |-> token,
          saved |-> FALSE]

LoginInit ==
    /\ inflight = [pc |-> "while", attempts |-> 0, approved |-> FALSE,
                   polled |-> [kind |-> "none", status |-> "", access_token |-> "",
                               user |-> FALSE],
                   reported |-> <<>>]
    /\ \E token \in StoredTokens : hist = [token |-> token, before |-> token, saves |-> 0]
    /\ heap = <<>>
    /\ held = 0
    /\ pOut = <<>>
    /\ TokIdle /\ SumIdle /\ SessIdle /\ MemIdle

\* One iteration of the loop: the status is polled and the answer acted on.
LoginPoll ==
    /\ inflight.pc = "while"
    /\ inflight.attempts < MAX_POLL_ATTEMPTS
    /\ ~inflight.approved
    /\ \E answer \in PollAnswers :
        /\ inflight' = [pc |-> IF AfterPoll(answer, hist.token).continue
                               THEN "while" ELSE "returned",
                        attempts |-> inflight.attempts + 1,
                        approved |-> AfterPoll(answer, hist.token).approved,
                        polled |-> answer,
                        reported |-> inflight.reported
                                         \o AfterPoll(answer, hist.token).reported]
        /\ hist' = [hist EXCEPT
                       !.token = AfterPoll(answer, hist.token).token,
                       !.saves = IF AfterPoll(answer, hist.token).saved THEN @ + 1 ELSE @]
    /\ UNCHANGED <<heap, held, pOut, tokVars, sumVars, sessVars, memVars>>

\* The loop is left without an answer that ends it.
LoginTimeOut ==
    /\ inflight.pc = "while"
    /\ ~(inflight.attempts < MAX_POLL_ATTEMPTS /\ ~inflight.approved)
    /\ inflight' = [inflight EXCEPT
                       !.pc = "returned",
                       !.reported = IF inflight.approved THEN @ ELSE Append(@, "timed out")]
    /\ UNCHANGED <<hist, heap, held, pOut, tokVars, sumVars, sessVars, memVars>>

LoginNext == LoginPoll \/ LoginTimeOut

SpecLogin == LoginInit /\ [][LoginNext]_vars

\* The command runs on: a poll that can be made is made.
SpecLoginFair == SpecLogin /\ WF_vars(LoginNext)

LoginOutcomes == {"approved", "denied", "expired", "error status", "timed out"}

\* The last poll gave an approval with an access token and a user.
ApprovedWithToken ==
    /\ inflight.polled.kind = "json"
    /\ inflight.polled.status = "approved"
    /\ inflight.polled.access_token # ""
    /\ inflight.polled.user

\* The outcome that the answer of the last poll calls for: timed out when
\* it ends nothing.
OutcomeOfPoll ==
    IF inflight.polled.kind = "http_error" THEN "error status"
    ELSE IF /\ inflight.polled.kind = "json"
            /\ inflight.polled.status \in {"approved", "denied", "expired"}
    THEN inflight.polled.status
    ELSE "timed out"

\* At most MAX_POLL_ATTEMPTS polls; nothing reported while the loop runs and
\* one outcome once it has ended, timed out only after MAX_POLL_ATTEMPTS
\* polls; the token saved once, by a poll approved with an access token and
\* a user, and otherwise as it was.
PollsAndOutcome ==
    /\ inflight.attempts <= MAX_POLL_ATTEMPTS
    /\ inflight.pc = "while" => inflight.reported = <<>>
    /\ inflight.pc = "returned" =>
           /\ inflight.reported = <<OutcomeOfPoll>>
           /\ OutcomeOfPoll \in LoginOutcomes
           /\ OutcomeOfPoll = "timed out" => inflight.attempts = MAX_POLL_ATTEMPTS
    /\ IF inflight.pc = "returned" /\ ApprovedWithToken
       THEN hist.token = inflight.polled.access_token /\ hist.saves = 1
       ELSE hist.token = hist.before /\ hist.saves = 0

\* The poll after which the loop polls again failed as a request, or said
\* that the approval is pending.
RetriedOnNetworkError ==
    (inflight.pc = "while" /\ inflight.attempts > 0) =>
        \/ inflight.polled.kind = "network_error"
        \/ inflight.polled.kind = "json" /\ inflight.polled.status = "pending"

\* The poll after which the loop polls again failed as a request, gave a
\* body that could not be read, or gave a status other than approved, denied
\* and expired.
PolledAgain ==
    (inflight.pc = "while" /\ inflight.attempts > 0) =>
        \/ inflight.polled.kind \in {"network_error", "unreadable"}
        \/ /\ inflight.polled.kind = "json"
           /\ inflight.polled.status \notin {"approved", "denied", "expired"}

=============================================================================
